---- MODULE Spec2Model ----
(***************************************************************************)
(* A model of the ray-tracer kernel: the pixel canvas and its PPM          *)
(* serialisation (src/src/draw/canvas.rs), the fixed-size matrices         *)
(* (src/src/matrix/matrix2.rs, matrix3.rs, matrix4.rs), tuples and colours *)
(* (src/src/tuple.rs, src/src/draw/color.rs) and the transformation        *)
(* matrices (src/src/transform.rs).                                        *)
(*                                                                         *)
(* Numbers.  A colour component is an f64; the model holds it as the       *)
(* integer numerator of a fraction over ColorDen, so that clamping,        *)
(* scaling and rounding are exact.  The f64 elements of a matrix or of a   *)
(* tuple are held as integer numerators (data) over one common             *)
(* denominator (denom): element i is data[i] / denom.  Where denom = 1 the *)
(* elements are integers, and sums and products of the small integers      *)
(* used here are exact in f64.  A scalar f64 that need not be an integer   *)
(* (a determinant compared with EPSILON, an element of an inverse) is a    *)
(* fraction [num, den] with den > 0.  The arithmetic of the model is       *)
(* exact: the inputs are chosen so that the rounding of f64 moves no        *)
(* result across a comparison.  A String is a sequence of one-character    *)
(* strings; Rust's byte index i is position i + 1 of the sequence.         *)
(*                                                                         *)
(* State.  The model exercises one object at a time (kind): a Canvas, a    *)
(* MatrixN, a Tuple, a Color, or the String given to wrap_string.  call is *)
(* the last call made on it with its arguments, ret the value that call    *)
(* returned.  wrap_string is followed statement by statement: frame holds  *)
(* its locals while it runs.                                               *)
(***************************************************************************)
EXTENDS Integers, Sequences, FiniteSets

VARIABLES
    kind,     \* the type of the object under test: "Canvas", "Matrix2", "Matrix3", "Matrix4", "Tuple", "Color", "String"
    width,    \* Canvas.width
    height,   \* Canvas.height
    pixels,   \* Canvas.pixels, row major
    data,     \* MatrixN.data, row major (Tuple: x, y, z, w; Color: red, green, blue): numerators
    denom,    \* the common denominator of data
    call,     \* the last call: [op |-> name, ...arguments]
    ret,      \* what the last call returned
    nwrites,  \* number of mutating calls made so far (set_pixel_at, set)
    shadow,   \* history: coordinates -> colour of the latest set_pixel_at that returned Ok
    frame     \* the locals of a function followed step by step (wrap_string), NoFrame otherwise

vars == <<kind, width, height, pixels, data, denom, call, ret, nwrites, shadow, frame>>

---------------------------------------------------------------------------
(* Bounds of the model *)

\* A colour component is Numerator / ColorDen.
ColorDen == 8
\* Canvas dimensions and write count of the pixel-access specification.
MaxWidth == 2
MaxHeight == 2
MaxWrites == 2
\* Canvas dimensions of the serialisation specification.
PpmMaxWidth == 13
PpmMaxHeight == 2

\* The colours the drivers paint with: black, (1.5, 0.5, -0.5), (1.0, 0.125, 0.75).
Black == [red |-> 0, green |-> 0, blue |-> 0]
Palette ==
    { Black,
      [red |-> 12, green |-> 4, blue |-> -4],
      [red |-> 8, green |-> 1, blue |-> 6] }

---------------------------------------------------------------------------
(* Return values *)

None == [tag |-> "None"]
Some(v) == [tag |-> "Some", val |-> v]
Ok == [tag |-> "Ok"]
Err(e) == [tag |-> "Err", err |-> e]
Val(v) == [tag |-> "Val", val |-> v]
Unit == [tag |-> "Unit"]

---------------------------------------------------------------------------
(* Strings *)

\* str.get(i..i+1): the character at byte index i.
CharAt(str, i) == str[i + 1]
\* str.get(a..b): the characters at byte indices a .. b-1.
Slice(str, a, b) == SubSeq(str, a + 1, b)

DigitChar == <<"0", "1", "2", "3", "4", "5", "6", "7", "8", "9">>

\* format!("{}", n) of an unsigned integer: decimal, no leading zeros.
RECURSIVE FmtUnsigned(_)
FmtUnsigned(n) ==
    IF n < 10 THEN <<DigitChar[n + 1]>>
    ELSE FmtUnsigned(n \div 10) \o <<DigitChar[(n % 10) + 1]>>

\* [String].join(sep)
RECURSIVE Join(_, _)
Join(parts, sep) ==
    IF Len(parts) = 0 THEN <<>>
    ELSE IF Len(parts) = 1 THEN parts[1]
    ELSE parts[1] \o sep \o Join(Tail(parts), sep)

---------------------------------------------------------------------------
(* ColorU8 *)

\* f64::clamp(0.0, 1.0) of the component n / ColorDen, as a numerator.
Clamp01(n) == IF n < 0 THEN 0 ELSE IF n > ColorDen THEN ColorDen ELSE n

\* Round without the call of round(): the cast alone, which truncates.
Round_truncating(num, den) == num \div den

\* f64::round of num / den (den > 0): nearest integer, halves away from zero.
Round(num, den) ==
    IF num >= 0 THEN (2 * num + den) \div (2 * den)
    ELSE -((2 * (-num) + den) \div (2 * den))

\* `as u8`: a saturating cast.
AsU8(v) == IF v < 0 THEN 0 ELSE IF v > 255 THEN 255 ELSE v

\* One channel of ColorU8::from(&Color).
ChannelU8(n) == AsU8(Round(Clamp01(n) * 255, ColorDen))

ColorU8_from(color) ==
    [red |-> ChannelU8(color.red),
     green |-> ChannelU8(color.green),
     blue |-> ChannelU8(color.blue)]

\* impl Display for ColorU8: "{} {} {}".
ColorU8_fmt(c) ==
    FmtUnsigned(c.red) \o <<" ">> \o FmtUnsigned(c.green) \o <<" ">> \o FmtUnsigned(c.blue)

---------------------------------------------------------------------------
(* Canvas *)

\* Canvas::new: the pixel buffer, width * height black pixels.
Canvas_new(w, h) == [i \in 1 .. (w * h) |-> Black]

OutOfBounds(x, y, w, h) ==
    [variant |-> "OutOfBounds", x |-> x, y |-> y, width |-> w, height |-> h]

\* Canvas_set_pixel_at with the bounds test off by one (> for >=).
Canvas_set_pixel_at_gt(w, h, px, x, y, color) ==
    IF x > w \/ y > h
    THEN [pixels |-> px, ret |-> Err(OutOfBounds(x, y, w, h))]
    ELSE [pixels |-> [px EXCEPT ![(y * w + x) + 1] = color], ret |-> Ok]

\* Canvas_get_color_at reading column major (x * height + y).
Canvas_get_color_at_colmajor(w, h, px, x, y) ==
    IF x >= w \/ y >= h THEN None
    ELSE Some(px[(x * h + y) + 1])

Canvas_get_color_at(w, h, px, x, y) ==
    IF x >= w \/ y >= h THEN None
    ELSE Some(px[(y * w + x) + 1])

\* The pixel buffer after the call and the value returned.
Canvas_set_pixel_at(w, h, px, x, y, color) ==
    IF x >= w \/ y >= h
    THEN [pixels |-> px, ret |-> Err(OutOfBounds(x, y, w, h))]
    ELSE [pixels |-> [px EXCEPT ![(y * w + x) + 1] = color], ret |-> Ok]

MAX_LINE_LEN == 70

\* The inner loop of wrap_string: move line_end back to a space, stopping at line_start.
RECURSIVE ScanBack(_, _, _)
ScanBack(str, line_end, line_start) ==
    IF CharAt(str, line_end) = " " THEN line_end
    ELSE LET e == line_end - 1
         IN  IF e = line_start THEN e ELSE ScanBack(str, e, line_start)

\* WrapFrom with the next line starting at the space instead of after it.
RECURSIVE WrapFrom_keepspace(_, _, _, _)
WrapFrom_keepspace(str, max_len, line_start, result) ==
    IF ~(line_start <= Len(str)) THEN result
    ELSE LET line_end0 == line_start + max_len
         IN  IF line_end0 >= Len(str)
             THEN result \o Slice(str, line_start, Len(str))
             ELSE LET line_end == ScanBack(str, line_end0, line_start)
                  IN  IF line_end = line_start THEN result
                      ELSE WrapFrom_keepspace(str, max_len, line_end,
                                    result \o Slice(str, line_start, line_end) \o <<"\n">>)

\* WrapFrom with the backward scan starting one character early
\* (line_start + max_len - 1).
RECURSIVE WrapFrom_early(_, _, _, _)
WrapFrom_early(str, max_len, line_start, result) ==
    IF ~(line_start <= Len(str)) THEN result
    ELSE LET line_end0 == line_start + max_len
         IN  IF line_end0 >= Len(str)
             THEN result \o Slice(str, line_start, Len(str))
             ELSE LET line_end == ScanBack(str, line_end0 - 1, line_start)
                  IN  IF line_end = line_start THEN result
                      ELSE WrapFrom_early(str, max_len, line_end + 1,
                                    result \o Slice(str, line_start, line_end) \o <<"\n">>)

\* The outer loop of wrap_string, from line_start with result built so far.
RECURSIVE WrapFrom(_, _, _, _)
WrapFrom(str, max_len, line_start, result) ==
    IF ~(line_start <= Len(str)) THEN result
    ELSE LET line_end0 == line_start + max_len
         IN  IF line_end0 >= Len(str)
             THEN result \o Slice(str, line_start, Len(str))
             ELSE LET line_end == ScanBack(str, line_end0, line_start)
                  IN  IF line_end = line_start THEN result
                      ELSE WrapFrom(str, max_len, line_end + 1,
                                    result \o Slice(str, line_start, line_end) \o <<"\n">>)

wrap_string(str, max_len) == WrapFrom(str, max_len, 0, <<>>)

\* The text of canvas row y before wrapping: the triplets joined by spaces.
RowText(w, h, px, y) ==
    Join([i \in 1 .. w |->
            ColorU8_fmt(ColorU8_from(Canvas_get_color_at(w, h, px, i - 1, y).val))],
         <<" ">>)

\* The body of to_ppm's loop for rows y .. height-1, appended to ppm.
RECURSIVE PpmRows(_, _, _, _, _)
PpmRows(w, h, px, y, ppm) ==
    IF y >= h THEN ppm
    ELSE PpmRows(w, h, px, y + 1,
                 ppm \o wrap_string(RowText(w, h, px, y), MAX_LINE_LEN) \o <<"\n">>)

\* PpmHeader with the dimensions in the order "<height> <width>".
PpmHeader_swapped(w, h) ==
    <<"P", "3", "\n">> \o FmtUnsigned(h) \o <<" ">> \o FmtUnsigned(w)
        \o <<"\n", "2", "5", "5", "\n">>

PpmHeader(w, h) ==
    <<"P", "3", "\n">> \o FmtUnsigned(w) \o <<" ">> \o FmtUnsigned(h)
        \o <<"\n", "2", "5", "5", "\n">>

Canvas_to_ppm(w, h, px) == PpmRows(w, h, px, 0, PpmHeader(w, h))

---------------------------------------------------------------------------
(* Actions on a Canvas *)

\* No function is being followed step by step.
NoFrame == [pc |-> "none"]

NoMatrix == <<>>

\* let canvas = Canvas::new(w, h)
NewCanvas(w, h) ==
    /\ kind = "Canvas"
    /\ width = w
    /\ height = h
    /\ pixels = Canvas_new(w, h)
    /\ data = NoMatrix
    /\ denom = 1
    /\ call = [op |-> "new"]
    /\ ret = Unit
    /\ nwrites = 0
    /\ shadow = <<>>
    /\ frame = NoFrame

Record(sh, x, y, color) ==
    [p \in (DOMAIN sh) \cup {<<x, y>>} |-> IF p = <<x, y>> THEN color ELSE sh[p]]

\* canvas.set_pixel_at(x, y, &color)
SetPixelAt(x, y, color) ==
    /\ kind = "Canvas"
    /\ LET r == Canvas_set_pixel_at(width, height, pixels, x, y, color)
       IN  /\ pixels' = r.pixels
           /\ ret' = r.ret
           /\ shadow' = IF r.ret = Ok THEN Record(shadow, x, y, color) ELSE shadow
    /\ call' = [op |-> "set_pixel_at", x |-> x, y |-> y, color |-> color]
    /\ nwrites' = nwrites + 1
    /\ UNCHANGED <<kind, denom, frame, width, height, data>>

\* canvas.get_color_at(x, y)
GetColorAt(x, y) ==
    /\ kind = "Canvas"
    /\ ret' = Canvas_get_color_at(width, height, pixels, x, y)
    /\ call' = [op |-> "get_color_at", x |-> x, y |-> y]
    /\ UNCHANGED <<kind, denom, frame, width, height, pixels, data, nwrites, shadow>>

\* The pixel buffer after the fill loop of the tests:
\* for i in 0..height { for j in 0..width { canvas.set_pixel_at(j, i, &color) } },
\* from cell k (row major) on.
RECURSIVE FillFrom(_, _, _, _, _)
FillFrom(w, h, px, k, color) ==
    IF k >= w * h THEN px
    ELSE FillFrom(w, h, Canvas_set_pixel_at(w, h, px, k % w, k \div w, color).pixels,
                  k + 1, color)

FillCanvas(color) ==
    /\ kind = "Canvas"
    /\ pixels' = FillFrom(width, height, pixels, 0, color)
    /\ shadow' = [p \in (0 .. width - 1) \X (0 .. height - 1) |-> color]
    /\ call' = [op |-> "fill", color |-> color]
    /\ ret' = Unit
    /\ nwrites' = nwrites + width * height
    /\ UNCHANGED <<kind, denom, frame, width, height, data>>

\* canvas.to_ppm()
ToPpm ==
    /\ kind = "Canvas"
    /\ ret' = Val(Canvas_to_ppm(width, height, pixels))
    /\ call' = [op |-> "to_ppm"]
    /\ UNCHANGED <<kind, denom, frame, width, height, pixels, data, nwrites, shadow>>

---------------------------------------------------------------------------
(* Pixel access: a canvas of any small size, then reads and writes at any  *)
(* coordinates, in range or not.                                           *)

InitCanvas == \E w \in 0 .. MaxWidth, h \in 0 .. MaxHeight : NewCanvas(w, h)

NextCanvas ==
    \/ \E x \in 0 .. MaxWidth, y \in 0 .. MaxHeight, c \in Palette :
          nwrites < MaxWrites /\ SetPixelAt(x, y, c)
    \/ \E x \in 0 .. MaxWidth, y \in 0 .. MaxHeight : GetColorAt(x, y)

SpecCanvas == InitCanvas /\ [][NextCanvas]_vars

(* Serialisation: a driver of the shape of the tests and of the example    *)
(* programs: construct, optionally fill, optionally plot one pixel,        *)
(* serialise.                                                               *)

InitPpm == \E w \in 0 .. PpmMaxWidth, h \in 0 .. PpmMaxHeight : NewCanvas(w, h)

NextPpm ==
    \/ \E c \in Palette \ {Black} : call.op = "new" /\ FillCanvas(c)
    \/ \E x \in 0 .. PpmMaxWidth, y \in 0 .. PpmMaxHeight, c \in Palette :
          call.op \in {"new", "fill"} /\ SetPixelAt(x, y, c)
    \/ call.op /= "to_ppm" /\ ToPpm

SpecPpm == InitPpm /\ [][NextPpm]_vars

---------------------------------------------------------------------------
(* Reading a PPM text back: the inverse of the formatting above, used to   *)
(* state what the output must contain.                                      *)

\* The pieces of str between occurrences of sep.
RECURSIVE SplitOn(_, _)
SplitOn(str, sep) ==
    LET at == {i \in 1 .. Len(str) : str[i] = sep}
    IN  IF at = {} THEN <<str>>
        ELSE LET first == CHOOSE i \in at : \A j \in at : i <= j
             IN  <<SubSeq(str, 1, first - 1)>>
                     \o SplitOn(SubSeq(str, first + 1, Len(str)), sep)

DigitValue(ch) == (CHOOSE d \in 1 .. 10 : DigitChar[d] = ch) - 1
IsDigit(ch) == \E d \in 1 .. 10 : DigitChar[d] = ch

RECURSIVE DigitsValue(_, _)
DigitsValue(s, acc) ==
    IF Len(s) = 0 THEN acc ELSE DigitsValue(Tail(s), acc * 10 + DigitValue(Head(s)))

\* The number a canonical decimal numeral denotes; -1 for anything else
\* (empty, a non-digit, a leading zero).
ParseUnsigned(s) ==
    IF /\ Len(s) > 0
       /\ \A i \in 1 .. Len(s) : IsDigit(s[i])
       /\ (Len(s) > 1 => s[1] /= "0")
    THEN DigitsValue(s, 0)
    ELSE -1

\* The space-separated words of a line; an empty line has none.
Words(line) == IF Len(line) = 0 THEN <<>> ELSE SplitOn(line, " ")

RECURSIVE Flatten(_)
Flatten(seqs) == IF Len(seqs) = 0 THEN <<>> ELSE Head(seqs) \o Flatten(Tail(seqs))

\* All lines of a text that ends with a newline.
LinesOf(out) == LET p == SplitOn(out, "\n") IN SubSeq(p, 1, Len(p) - 1)
\* The lines after the three header lines.
DataLines(out) == LET l == LinesOf(out) IN SubSeq(l, 4, Len(l))
\* The numbers of the pixel data, in output order.
PpmValues(out) ==
    LET lines == DataLines(out)
        w == Flatten([i \in 1 .. Len(lines) |-> Words(lines[i])])
    IN  [i \in 1 .. Len(w) |-> ParseUnsigned(w[i])]

\* The number of words of each line.
WordCounts(lines) == [i \in 1 .. Len(lines) |-> Len(Words(lines[i]))]

\* Number of words on the lines before line i, from the counts per line.
RECURSIVE WordsBefore(_, _)
WordsBefore(counts, i) ==
    IF i <= 1 THEN 0 ELSE WordsBefore(counts, i - 1) + counts[i - 1]

\* The canvas row data line i belongs to, counting 3 * w numbers per row
\* (w > 0 and line i not empty).
RowOfLine(counts, i, w) == WordsBefore(counts, i) \div (3 * w)

\* Component ch (0 red, 1 green, 2 blue) of a colour.
Component(color, ch) ==
    IF ch = 0 THEN color.red ELSE IF ch = 1 THEN color.green ELSE color.blue

Serialized == kind = "Canvas" /\ call.op = "to_ppm"

---------------------------------------------------------------------------
(* Canvas: pixel access *)

CallOutOfRange == call.x >= width \/ call.y >= height

\* C1: set_pixel_at(x, y, c) returns Err(OutOfBounds{x, y, width, height}) with
\* exactly the requested x, y and the canvas's width and height if and only if
\* x >= width or y >= height, and Ok otherwise; get_color_at(x, y) returns None
\* under exactly the same condition and Some otherwise.
C1_BoundsChecked ==
    /\ (kind = "Canvas" /\ call.op = "set_pixel_at") =>
          /\ CallOutOfRange <=> ret.tag = "Err"
          /\ ~CallOutOfRange <=> ret = [tag |-> "Ok"]
          /\ ret.tag = "Err" =>
                ret.err = [variant |-> "OutOfBounds", x |-> call.x, y |-> call.y,
                           width |-> width, height |-> height]
    /\ (kind = "Canvas" /\ call.op = "get_color_at") =>
          /\ CallOutOfRange <=> ret = [tag |-> "None"]
          /\ ~CallOutOfRange <=> ret.tag = "Some"

\* A write just past the right edge of a non-empty canvas was refused, and
\* reported with its coordinates and the canvas's dimensions.
C1_Witness ==
    /\ kind = "Canvas" /\ call.op = "set_pixel_at"
    /\ width > 0 /\ height > 0
    /\ call.x = width /\ call.y < height
    /\ ret.tag = "Err" /\ ret.err.x = width /\ ret.err.width = width

\* What the claim expects a read of (x, y) to give: the colour of the latest
\* successful write there, black if there was none.
Expected(x, y) == IF <<x, y>> \in DOMAIN shadow THEN shadow[<<x, y>>] ELSE Black

PixelsAsWritten ==
    kind = "Canvas" =>
        \A x \in 0 .. width - 1, y \in 0 .. height - 1 :
            Canvas_get_color_at(width, height, pixels, x, y)
                = [tag |-> "Some", val |-> Expected(x, y)]

\* A step that is a call of set_pixel_at: a failed one changes no pixel, a
\* successful one changes at most the pixel at row-major position y * width + x;
\* neither changes the dimensions.
WriteIsLocal ==
    (call' /= call \/ ret' /= ret \/ nwrites' /= nwrites) /\ call'.op = "set_pixel_at" =>
        /\ width' = width /\ height' = height
        /\ Len(pixels') = width * height
        /\ ret'.tag = "Err" => pixels' = pixels
        /\ ret'.tag = "Ok" =>
              \A i \in 1 .. Len(pixels) :
                  i /= call'.y * width + call'.x + 1 => pixels'[i] = pixels[i]

\* C2: after Canvas::new(width, height) and any sequence of set_pixel_at calls,
\* get_color_at(x, y) for every x < width, y < height returns the colour of the
\* most recent successful set_pixel_at at exactly (x, y), or black if there was
\* none; a successful write changes only its own pixel, and a failed write
\* changes no pixel and leaves width and height unchanged.
C2_LastWriteWins == []PixelsAsWritten /\ [][WriteIsLocal]_vars

\* A pixel of a canvas of several pixels was written twice (or once after a
\* refused write), the last time with a colour other than black, and reads
\* back as that colour while the other pixels are still black.
C2_Witness ==
    /\ kind = "Canvas" /\ call.op = "set_pixel_at" /\ ret = Ok
    /\ nwrites = 2 /\ width * height > 1
    /\ DOMAIN shadow = {<<call.x, call.y>>}
    /\ call.color /= Black
    /\ Canvas_get_color_at(width, height, pixels, call.x, call.y) = Some(call.color)

---------------------------------------------------------------------------
(* Canvas: serialisation *)

\* C3: for a canvas of any width and height (including 0), to_ppm output begins
\* with exactly the three header lines "P3", "<width> <height>", "255", each
\* ended by a newline, and the last character of the whole output is a newline.
C3_Header ==
    Serialized =>
        LET out == ret.val
            lines == SplitOn(out, "\n")
            dims == SplitOn(lines[2], " ")
        IN  /\ Len(lines) >= 4
            /\ lines[1] = <<"P", "3">>
            /\ Len(dims) = 2
            /\ ParseUnsigned(dims[1]) = width
            /\ ParseUnsigned(dims[2]) = height
            /\ lines[3] = <<"2", "5", "5">>
            /\ out[Len(out)] = "\n"

\* A canvas with rows but no columns was serialised: the output is the header
\* and one empty line per row.
C3_Witness ==
    /\ Serialized
    /\ width = 0 /\ height > 0
    /\ Len(LinesOf(ret.val)) = 3 + height
    /\ ret.val[Len(ret.val)] = "\n"

\* The number the data must hold at position k (from 0): channel k % 3 of the
\* converted colour of pixel k \div 3 in row-major order.
ExpectedValue(k) ==
    LET x == (k \div 3) % width
        y == (k \div 3) \div width
    IN  Component(ColorU8_from(Canvas_get_color_at(width, height, pixels, x, y).val), k % 3)

\* C4: the pixel data after the header lists the canvas rows from y = 0 to
\* height-1; the lines of one row hold exactly width triplets "R G B" in order
\* x = 0 .. width-1, the triplet at x being the converted colour of pixel (x, y):
\* the data holds exactly 3*width*height values in row-major order, no value is
\* dropped or split, and no output line mixes values of two canvas rows.
C4_RowMajorData ==
    Serialized =>
        LET lines == DataLines(ret.val)
            vals == PpmValues(ret.val)
            counts == WordCounts(lines)
        IN  /\ Len(vals) = 3 * width * height
            /\ \A k \in 1 .. Len(vals) : vals[k] = ExpectedValue(k - 1)
            /\ width = 0 => Len(lines) = height
            /\ width > 0 =>
                  \A i \in 1 .. Len(lines) :
                      /\ Len(lines[i]) > 0
                      /\ RowOfLine(counts, i, width)
                            = (WordsBefore(counts, i + 1) - 1) \div (3 * width)

\* A painted two-row canvas whose rows each took two output lines.
C4_Witness ==
    /\ Serialized
    /\ height = 2 /\ width > 0
    /\ Len(DataLines(ret.val)) = 2 * height
    /\ \E p \in DOMAIN shadow : shadow[p] /= Black

\* The data lines of canvas row y, in order.
LinesOfRow(lines, y) ==
    LET counts == WordCounts(lines)
        idx == {i \in 1 .. Len(lines) : RowOfLine(counts, i, width) = y}
    IN  [k \in 1 .. Cardinality(idx) |->
            lines[CHOOSE i \in idx : Cardinality({j \in idx : j < i}) = k - 1]]

\* Byte index in the row text at which output line k of the row starts.
RECURSIVE StartOf(_, _)
StartOf(rowlines, k) ==
    IF k <= 1 THEN 0 ELSE StartOf(rowlines, k - 1) + Len(rowlines[k - 1]) + 1

\* The breaks of one row: its lines joined by spaces are the row text, and the
\* break ending line k is at a space of the text, at most MAX_LINE_LEN after the
\* start of the line, with no later space within that reach.
RowWrapped(text, rowlines) ==
    /\ Join(rowlines, <<" ">>) = text
    /\ Len(text) > MAX_LINE_LEN <=> Len(rowlines) > 1
    /\ \A k \in 1 .. Len(rowlines) - 1 :
          LET s == StartOf(rowlines, k)
              e == s + Len(rowlines[k])
          IN  /\ CharAt(text, e) = " "
              /\ e <= s + MAX_LINE_LEN
              /\ Len(text) > s + MAX_LINE_LEN
              /\ \A j \in e + 1 .. s + MAX_LINE_LEN : CharAt(text, j) /= " "

\* C5: no line of to_ppm output is longer than 70 characters; a canvas row
\* whose text exceeds 70 characters is broken only at positions that held a
\* space, and each break is at the last space whose index is at most 70
\* characters after the start of the current output line.
C5_LineLength ==
    Serialized =>
        LET all == LinesOf(ret.val)
            lines == DataLines(ret.val)
        IN  /\ \A i \in 1 .. Len(all) : Len(all[i]) <= MAX_LINE_LEN
            /\ width > 0 =>
                  \A y \in 0 .. height - 1 :
                      RowWrapped(RowText(width, height, pixels, y), LinesOfRow(lines, y))

\* A row of more than 140 characters was broken twice, the second break found
\* from a line start other than the start of the row.
C5_Witness ==
    /\ Serialized
    /\ width > 0 /\ height > 0
    /\ Len(RowText(width, height, pixels, 0)) > 2 * MAX_LINE_LEN
    /\ Len(LinesOfRow(DataLines(ret.val), 0)) = 3

\* v is c * 255 rounded to the nearest integer, halves away from zero, for the
\* component c = n / ColorDen with 0 <= c <= 1.
IsRounded(v, n) ==
    /\ 2 * ColorDen * v > 2 * 255 * n - ColorDen
    /\ 2 * ColorDen * v <= 2 * 255 * n + ColorDen

\* C6: each colour component c is serialised as round(clamp(c, 0, 1) * 255) with
\* halves rounded away from zero: the value is in 0..255, every c <= 0 gives 0,
\* every c >= 1 gives 255, c = 0.5 gives 128, and the value is non-decreasing
\* in c; the Color stored in the canvas stays unclamped.
C6_ChannelConversion ==
    Serialized =>
        LET vals == PpmValues(ret.val)
            comp(k) == Component(pixels[((k - 1) \div 3) + 1], (k - 1) % 3)
        IN  /\ Len(vals) = 3 * Len(pixels)
            /\ \A k \in 1 .. Len(vals) :
                  LET n == comp(k)
                      c == IF n < 0 THEN 0 ELSE IF n > ColorDen THEN ColorDen ELSE n
                  IN  /\ vals[k] \in 0 .. 255
                      /\ IsRounded(vals[k], c)
                      /\ n <= 0 => vals[k] = 0
                      /\ n >= ColorDen => vals[k] = 255
                      /\ 2 * n = ColorDen => vals[k] = 128
            /\ LET pairs == {<<comp(k), vals[k]>> : k \in 1 .. Len(vals)}
               IN  \A p, q \in pairs : p[1] <= q[1] => p[2] <= q[2]
            /\ \A x \in 0 .. width - 1, y \in 0 .. height - 1 :
                  pixels[y * width + x + 1] = Expected(x, y)

\* A canvas holding a component above 1, one below 0 and one equal to 0.5 was
\* serialised; the stored components are still outside [0, 1].
C6_Witness ==
    /\ Serialized
    /\ \E i \in 1 .. Len(pixels) :
          /\ pixels[i].red > ColorDen
          /\ 2 * pixels[i].green = ColorDen
          /\ pixels[i].blue < 0
    /\ \E k \in 1 .. Len(PpmValues(ret.val)) : PpmValues(ret.val)[k] = 128

---------------------------------------------------------------------------
(* Matrices *)

\* MatrixNError::OutOfBounds: a variant without fields.
MatrixOutOfBounds == [variant |-> "OutOfBounds"]
\* A panic: the call returns nothing.
Panic == [tag |-> "Panic"]

(* Matrix2 *)

Matrix2_zero == [i \in 1 .. 4 |-> 0]
Matrix2_identity == [i \in 1 .. 4 |-> IF (i - 1) \in {0, 3} THEN 1 ELSE 0]

Matrix2_get(d, row, col) ==
    IF row >= 2 \/ col >= 2 THEN None
    ELSE Some(d[(row * 2 + col) + 1])

Matrix2_set(d, row, col, val) ==
    IF row >= 2 \/ col >= 2
    THEN [data |-> d, ret |-> Err(MatrixOutOfBounds)]
    ELSE [data |-> [d EXCEPT ![(row * 2 + col) + 1] = val], ret |-> Ok]

\* Matrix2_det with the product of the wrong diagonal added.
Matrix2_det_plus(d) == d[1] * d[4] + d[2] * d[3]

Matrix2_det(d) == d[1] * d[4] - d[2] * d[3]

(* Matrix3 *)

Matrix3_zero == [i \in 1 .. 9 |-> 0]
Matrix3_identity == [i \in 1 .. 9 |-> IF (i - 1) \in {0, 4, 8} THEN 1 ELSE 0]

Matrix3_get(d, row, col) ==
    IF row >= 3 \/ col >= 3 THEN None
    ELSE Some(d[(row * 3 + col) + 1])

Matrix3_set(d, row, col, val) ==
    IF row >= 3 \/ col >= 3
    THEN [data |-> d, ret |-> Err(MatrixOutOfBounds)]
    ELSE [data |-> [d EXCEPT ![(row * 3 + col) + 1] = val], ret |-> Ok]

\* The loop of Matrix3::submatrix from element i on: the values written to
\* submatrix_data so far are out (index = Len(out)).
RECURSIVE Matrix3_submatrix_loop(_, _, _, _, _)
Matrix3_submatrix_loop(d, row, col, i, out) ==
    IF i >= 9 THEN out
    ELSE IF (i \div 3 = row) \/ (i % 3 = col)
         THEN Matrix3_submatrix_loop(d, row, col, i + 1, out)
         ELSE Matrix3_submatrix_loop(d, row, col, i + 1, Append(out, d[i + 1]))

\* Matrix3::submatrix with the writes past the end of submatrix_data dropped.
Matrix3_submatrix_unchecked(d, row, col) ==
    LET out == Matrix3_submatrix_loop(d, row, col, 0, <<>>)
    IN  Val([i \in 1 .. 4 |-> IF i <= Len(out) THEN out[i] ELSE 0])

\* Matrix3::submatrix: a write at index >= 4 of submatrix_data panics.
Matrix3_submatrix(d, row, col) ==
    LET out == Matrix3_submatrix_loop(d, row, col, 0, <<>>)
    IN  IF Len(out) > 4 THEN Panic
        ELSE Val([i \in 1 .. 4 |-> IF i <= Len(out) THEN out[i] ELSE 0])

Matrix3_minor(d, row, col) ==
    LET submatrix == Matrix3_submatrix(d, row, col)
    IN  IF submatrix = Panic THEN Panic ELSE Val(Matrix2_det(submatrix.val))

\* Matrix3_cofactor with the sign taken from the row alone.
Matrix3_cofactor_rowsign(d, row, col) ==
    LET minor == Matrix3_minor(d, row, col)
    IN  IF minor = Panic THEN Panic
        ELSE IF row % 2 = 0 THEN minor ELSE Val(-minor.val)

Matrix3_cofactor(d, row, col) ==
    LET minor == Matrix3_minor(d, row, col)
    IN  IF minor = Panic THEN Panic
        ELSE IF (row + col) % 2 = 0 THEN minor ELSE Val(-minor.val)

Matrix3_det(d) ==
    d[1] * Matrix3_cofactor(d, 0, 0).val
        + d[2] * Matrix3_cofactor(d, 0, 1).val
        + d[3] * Matrix3_cofactor(d, 0, 2).val

(* Matrix4 *)

Matrix4_zero == [i \in 1 .. 16 |-> 0]
Matrix4_identity == [i \in 1 .. 16 |-> IF (i - 1) \in {0, 5, 10, 15} THEN 1 ELSE 0]

Matrix4_get(d, row, col) ==
    IF row >= 4 \/ col >= 4 THEN None
    ELSE Some(d[(row * 4 + col) + 1])

\* Matrix4_set with the bounds test off by one (> for >=).
Matrix4_set_gt(d, row, col, val) ==
    IF row > 4 \/ col > 4
    THEN [data |-> d, ret |-> Err(MatrixOutOfBounds)]
    ELSE [data |-> [d EXCEPT ![(row * 4 + col) + 1] = val], ret |-> Ok]

\* Matrix4_set writing with the row stride of Matrix3.
Matrix4_set_stride3(d, row, col, val) ==
    IF row >= 4 \/ col >= 4
    THEN [data |-> d, ret |-> Err(MatrixOutOfBounds)]
    ELSE [data |-> [d EXCEPT ![(row * 3 + col) + 1] = val], ret |-> Ok]

Matrix4_set(d, row, col, val) ==
    IF row >= 4 \/ col >= 4
    THEN [data |-> d, ret |-> Err(MatrixOutOfBounds)]
    ELSE [data |-> [d EXCEPT ![(row * 4 + col) + 1] = val], ret |-> Ok]

\* The loop of Matrix4::submatrix with row and column exchanged in the test.
RECURSIVE Matrix4_submatrix_loop_swapped(_, _, _, _, _)
Matrix4_submatrix_loop_swapped(d, row, col, i, out) ==
    IF i >= 16 THEN out
    ELSE IF (i \div 4 = col) \/ (i % 4 = row)
         THEN Matrix4_submatrix_loop_swapped(d, row, col, i + 1, out)
         ELSE Matrix4_submatrix_loop_swapped(d, row, col, i + 1, Append(out, d[i + 1]))

\* The loop of Matrix4::submatrix from element i on.
RECURSIVE Matrix4_submatrix_loop(_, _, _, _, _)
Matrix4_submatrix_loop(d, row, col, i, out) ==
    IF i >= 16 THEN out
    ELSE IF (i \div 4 = row) \/ (i % 4 = col)
         THEN Matrix4_submatrix_loop(d, row, col, i + 1, out)
         ELSE Matrix4_submatrix_loop(d, row, col, i + 1, Append(out, d[i + 1]))

\* Matrix4::submatrix: a write at index >= 9 of submatrix_data panics.
Matrix4_submatrix(d, row, col) ==
    LET out == Matrix4_submatrix_loop(d, row, col, 0, <<>>)
    IN  IF Len(out) > 9 THEN Panic
        ELSE Val([i \in 1 .. 9 |-> IF i <= Len(out) THEN out[i] ELSE 0])

Matrix4_minor(d, row, col) ==
    LET submatrix == Matrix4_submatrix(d, row, col)
    IN  IF submatrix = Panic THEN Panic ELSE Val(Matrix3_det(submatrix.val))

\* Matrix4_cofactor without the sign.
Matrix4_cofactor_unsigned(d, row, col) == Matrix4_minor(d, row, col)

Matrix4_cofactor(d, row, col) ==
    LET minor == Matrix4_minor(d, row, col)
    IN  IF minor = Panic THEN Panic
        ELSE IF (row + col) % 2 = 0 THEN minor ELSE Val(-minor.val)

Matrix4_det(d) ==
    d[1] * Matrix4_cofactor(d, 0, 0).val
        + d[2] * Matrix4_cofactor(d, 0, 1).val
        + d[3] * Matrix4_cofactor(d, 0, 2).val
        + d[4] * Matrix4_cofactor(d, 0, 3).val

---------------------------------------------------------------------------
(* Actions on a MatrixN *)

IsMatrix == kind \in {"Matrix2", "Matrix3", "Matrix4"}
\* N of MatrixN.
Dim == IF kind = "Matrix2" THEN 2 ELSE IF kind = "Matrix3" THEN 3 ELSE 4

\* The matrices of the tests (from_array), with zero() and identity().
Det532 == <<-5, 2, 6, -8, 1, -5, 1, 8, 7, 7, -6, -7, 1, -3, 7, 4>>
Det4071 == <<-2, -8, 3, 5, -3, 1, 7, 3, 1, 2, -9, 6, -6, 7, 7, -9>>
Seeds(k) ==
    IF k = "Matrix2" THEN {Matrix2_zero, Matrix2_identity, <<1, 5, -3, 2>>}
    ELSE IF k = "Matrix3"
    THEN {Matrix3_zero, Matrix3_identity,
          <<3, 5, 0, 2, -1, -7, 6, -1, 5>>, <<1, 2, 6, -5, 8, -4, 2, 6, 4>>}
    ELSE {Matrix4_zero, Matrix4_identity, Det532, Det4071,
          <<-6, 1, 1, 6, -8, 5, 8, 6, -1, 0, 8, 2, -7, 1, -1, 1>>}
\* The values written by set.
SetVals == {-3, 2}
\* Number of set calls on a matrix.
MaxSets == 1

\* let m = MatrixN::from_array(arr)   (or zero(), identity())
NewMatrix(k, arr) ==
    /\ kind = k
    /\ data = arr
    /\ denom = 1
    /\ width = 0 /\ height = 0 /\ pixels = <<>>
    /\ call = [op |-> "new"]
    /\ ret = Unit
    /\ nwrites = 0
    /\ shadow = <<>>
    /\ frame = NoFrame

\* m.get(row, col)
Get(row, col) ==
    /\ IsMatrix
    /\ ret' = IF kind = "Matrix2" THEN Matrix2_get(data, row, col)
              ELSE IF kind = "Matrix3" THEN Matrix3_get(data, row, col)
              ELSE Matrix4_get(data, row, col)
    /\ call' = [op |-> "get", row |-> row, col |-> col]
    /\ UNCHANGED <<kind, denom, frame, width, height, pixels, data, nwrites, shadow>>

\* m.set(row, col, val)
Set(row, col, val) ==
    /\ IsMatrix
    /\ LET r == IF kind = "Matrix2" THEN Matrix2_set(data, row, col, val)
                ELSE IF kind = "Matrix3" THEN Matrix3_set(data, row, col, val)
                ELSE Matrix4_set(data, row, col, val)
       IN  data' = r.data /\ ret' = r.ret
    /\ call' = [op |-> "set", row |-> row, col |-> col, val |-> val]
    /\ nwrites' = nwrites + 1
    /\ UNCHANGED <<kind, denom, frame, width, height, pixels, shadow>>

\* m.det()
Det ==
    /\ IsMatrix
    /\ ret' = IF kind = "Matrix2" THEN Val(Matrix2_det(data))
              ELSE IF kind = "Matrix3" THEN Val(Matrix3_det(data))
              ELSE Val(Matrix4_det(data))
    /\ call' = [op |-> "det"]
    /\ UNCHANGED <<kind, denom, frame, width, height, pixels, data, nwrites, shadow>>

\* m.submatrix(row, col)
Submatrix(row, col) ==
    /\ kind \in {"Matrix3", "Matrix4"}
    /\ ret' = IF kind = "Matrix3" THEN Matrix3_submatrix(data, row, col)
              ELSE Matrix4_submatrix(data, row, col)
    /\ call' = [op |-> "submatrix", row |-> row, col |-> col]
    /\ UNCHANGED <<kind, denom, frame, width, height, pixels, data, nwrites, shadow>>

\* m.minor(row, col)
Minor(row, col) ==
    /\ kind \in {"Matrix3", "Matrix4"}
    /\ ret' = IF kind = "Matrix3" THEN Matrix3_minor(data, row, col)
              ELSE Matrix4_minor(data, row, col)
    /\ call' = [op |-> "minor", row |-> row, col |-> col]
    /\ UNCHANGED <<kind, denom, frame, width, height, pixels, data, nwrites, shadow>>

\* m.cofactor(row, col)
Cofactor(row, col) ==
    /\ kind \in {"Matrix3", "Matrix4"}
    /\ ret' = IF kind = "Matrix3" THEN Matrix3_cofactor(data, row, col)
              ELSE Matrix4_cofactor(data, row, col)
    /\ call' = [op |-> "cofactor", row |-> row, col |-> col]
    /\ UNCHANGED <<kind, denom, frame, width, height, pixels, data, nwrites, shadow>>

(* A matrix of the tests, changed by at most MaxSets calls of set, then one    *)
(* read.  The reads take &self and change nothing, so a read after other reads *)
(* returns what it returns alone.  Indices run over 0 .. N: every index in     *)
(* range and the first one out of range.                                       *)

InitMatrix == \E k \in {"Matrix2", "Matrix3", "Matrix4"} : \E arr \in Seeds(k) : NewMatrix(k, arr)

Unread == call.op \in {"new", "set"}

NextMatrix ==
    \/ \E row \in 0 .. Dim, col \in 0 .. Dim, val \in SetVals :
          Unread /\ nwrites < MaxSets /\ Set(row, col, val)
    \/ \E row \in 0 .. Dim, col \in 0 .. Dim : Unread /\ Get(row, col)
    \/ Unread /\ Det
    \/ \E row \in 0 .. Dim, col \in 0 .. Dim : Unread /\ Submatrix(row, col)
    \/ \E row \in 0 .. Dim, col \in 0 .. Dim : Unread /\ Minor(row, col)
    \/ \E row \in 0 .. Dim, col \in 0 .. Dim : Unread /\ Cofactor(row, col)

SpecMatrix == InitMatrix /\ [][NextMatrix]_vars

(* Either kind of object. *)

Init == InitCanvas \/ InitMatrix
Next == NextCanvas \/ NextMatrix
Spec == Init /\ [][Next]_vars

---------------------------------------------------------------------------
(* Matrices: element access *)

IndexOutOfRange == call.row >= Dim \/ call.col >= Dim
\* Row-major position of the element the call names.
CallIndex == call.row * Dim + call.col + 1

GetChecked ==
    (IsMatrix /\ call.op = "get") =>
        /\ IndexOutOfRange <=> ret = [tag |-> "None"]
        /\ ~IndexOutOfRange => ret = [tag |-> "Some", val |-> data[CallIndex]]

\* A step that is a call of set.
SetChecked ==
    (IsMatrix /\ nwrites' /= nwrites /\ call'.op = "set") =>
        LET row == call'.row
            col == call'.col
            at == row * Dim + col + 1
        IN  IF row >= Dim \/ col >= Dim
            THEN /\ ret' = [tag |-> "Err", err |-> [variant |-> "OutOfBounds"]]
                 /\ data' = data
            ELSE /\ ret' = [tag |-> "Ok"]
                 /\ Len(data') = Dim * Dim
                 /\ \A i \in 1 .. Len(data) : i /= at => data'[i] = data[i]
                 /\ (IF kind = "Matrix2" THEN Matrix2_get(data', row, col)
                     ELSE IF kind = "Matrix3" THEN Matrix3_get(data', row, col)
                     ELSE Matrix4_get(data', row, col))
                        = [tag |-> "Some", val |-> call'.val]

\* C7: for MatrixN, N in {2, 3, 4}: get(row, col) returns None if and only if
\* row >= N or col >= N, and otherwise the element at row-major index
\* row*N + col; set(row, col, v) returns an OutOfBounds error under exactly the
\* same condition and then leaves all N*N elements unchanged, and otherwise
\* returns Ok, changes only element (row, col), and a following get(row, col)
\* returns v.
C7_ElementAccess == []GetChecked /\ [][SetChecked]_vars

\* Element (2, 1) of a Matrix4 was set to a value it did not hold, and holds it.
C7_Witness ==
    /\ kind = "Matrix4" /\ call.op = "set" /\ ret = Ok
    /\ call.row = 2 /\ call.col = 1
    /\ data[10] = call.val
    /\ data \notin Seeds("Matrix4")

\* The last call was an access outside the bounds of the object.
OutOfBoundsAccess ==
    \/ kind = "Canvas" /\ call.op \in {"set_pixel_at", "get_color_at"} /\ CallOutOfRange
    \/ IsMatrix /\ call.op \in {"get", "set"} /\ IndexOutOfRange

\* The numbers an error value carries.
Carried(r) ==
    IF r.tag = "Err" THEN {r.err[f] : f \in (DOMAIN r.err) \ {"variant"}} ELSE {}

\* C8 as stated: every out-of-bounds access, on a matrix element as on a canvas
\* pixel, is reported as a recoverable result that carries the offending
\* coordinates and the bounds of the entity.
C8_AsStated ==
    OutOfBoundsAccess =>
        /\ ret.tag \in {"None", "Err"}
        /\ IF kind = "Canvas"
           THEN {call.x, call.y, width, height} \subseteq Carried(ret)
           ELSE {call.row, call.col, Dim} \subseteq Carried(ret)

\* C8, amended: every out-of-bounds access is reported as a recoverable result
\* and never aborts: a read (get_color_at, get) as None, a canvas write as
\* Err(OutOfBounds{x, y, width, height}) with the coordinates and the
\* dimensions, a matrix write as Err(OutOfBounds), a variant without fields
\* that carries neither coordinates nor bounds.
C8_Recoverable ==
    OutOfBoundsAccess =>
        IF call.op \in {"get_color_at", "get"} THEN ret = [tag |-> "None"]
        ELSE IF kind = "Canvas"
        THEN ret = [tag |-> "Err",
                    err |-> [variant |-> "OutOfBounds", x |-> call.x, y |-> call.y,
                             width |-> width, height |-> height]]
        ELSE ret = [tag |-> "Err", err |-> [variant |-> "OutOfBounds"]] /\ Carried(ret) = {}

\* A write to row 4 of a Matrix4 was refused with the bare OutOfBounds variant.
C8_Witness ==
    /\ kind = "Matrix4" /\ call.op = "set"
    /\ call.row = 4 /\ call.col < 4
    /\ ret.tag = "Err" /\ DOMAIN ret.err = {"variant"}

---------------------------------------------------------------------------
(* Matrices: determinant, minor, cofactor *)

\* The permutations of 1 .. n and their signs.
Perms(n) == {p \in [1 .. n -> 1 .. n] : \A i, j \in 1 .. n : i /= j => p[i] /= p[j]}
SignOf(p, n) ==
    IF Cardinality({ij \in (1 .. n) \X (1 .. n) : ij[1] < ij[2] /\ p[ij[1]] > p[ij[2]]}) % 2 = 0
    THEN 1 ELSE -1

RECURSIVE RowProduct(_, _, _, _)
RowProduct(d, n, p, i) ==
    IF i > n THEN 1 ELSE d[(i - 1) * n + p[i]] * RowProduct(d, n, p, i + 1)

RECURSIVE SumOverPerms(_, _, _)
SumOverPerms(ps, d, n) ==
    IF ps = {} THEN 0
    ELSE LET p == CHOOSE q \in ps : TRUE
         IN  SignOf(p, n) * RowProduct(d, n, p, 1) + SumOverPerms(ps \ {p}, d, n)

\* The determinant of the n x n matrix d (row major) as the sum over all
\* permutations p of sign(p) * d[1, p(1)] * ... * d[n, p(n)].
LeibnizDet(d, n) == SumOverPerms(Perms(n), d, n)

\* C9: det() computes the mathematical determinant at every size: for Matrix2
\* [[a,b],[c,d]] it is a*d - b*c, for Matrix3 and Matrix4 the first-row cofactor
\* expansion, the sum over j of data[0][j] * cofactor(0, j), which for every
\* matrix with integer entries equals the permutation-sum determinant; the
\* matrices of the tests have determinants 532 and -4071.
C9_Determinant ==
    (IsMatrix /\ call.op = "det") =>
        /\ ret = [tag |-> "Val", val |-> LeibnizDet(data, Dim)]
        /\ kind = "Matrix2" => ret.val = data[1] * data[4] - data[2] * data[3]
        /\ kind = "Matrix3" =>
              ret.val = data[1] * Matrix3_cofactor(data, 0, 0).val
                          + data[2] * Matrix3_cofactor(data, 0, 1).val
                          + data[3] * Matrix3_cofactor(data, 0, 2).val
        /\ kind = "Matrix4" =>
              ret.val = data[1] * Matrix4_cofactor(data, 0, 0).val
                          + data[2] * Matrix4_cofactor(data, 0, 1).val
                          + data[3] * Matrix4_cofactor(data, 0, 2).val
                          + data[4] * Matrix4_cofactor(data, 0, 3).val
        /\ data = <<-5, 2, 6, -8, 1, -5, 1, 8, 7, 7, -6, -7, 1, -3, 7, 4>> => ret.val = 532
        /\ data = <<-2, -8, 3, 5, -3, 1, 7, 3, 1, 2, -9, 6, -6, 7, 7, -9>> => ret.val = -4071

\* det() of the 4x4 matrix of the inverse test returned 532.
C9_Witness ==
    /\ kind = "Matrix4" /\ call.op = "det"
    /\ data = Det532
    /\ ret = Val(532)

\* The (n-1) x (n-1) matrix left of the n x n matrix d when row and col are
\* deleted: element (i, j) is element (i or i+1, j or j+1) of d.
Deleted(d, n, row, col) ==
    [k \in 1 .. (n - 1) * (n - 1) |->
        LET i == (k - 1) \div (n - 1)
            j == (k - 1) % (n - 1)
            si == IF i < row THEN i ELSE i + 1
            sj == IF j < col THEN j ELSE j + 1
        IN  d[si * n + sj + 1]]

\* C10: for Matrix3 and Matrix4 and every row, col < N: minor(row, col) equals
\* submatrix(row, col).det(), and cofactor(row, col) equals minor(row, col) when
\* row + col is even and -minor(row, col) when row + col is odd.
C10_MinorCofactor ==
    (IsMatrix /\ call.op \in {"minor", "cofactor"} /\ ~IndexOutOfRange) =>
        LET row == call.row
            col == call.col
            sub == IF kind = "Matrix3" THEN Matrix3_submatrix(data, row, col)
                   ELSE Matrix4_submatrix(data, row, col)
            subdet == IF kind = "Matrix3" THEN Matrix2_det(sub.val) ELSE Matrix3_det(sub.val)
            minor == IF kind = "Matrix3" THEN Matrix3_minor(data, row, col)
                     ELSE Matrix4_minor(data, row, col)
            sign == IF (row + col) % 2 = 0 THEN 1 ELSE -1
            math == LeibnizDet(Deleted(data, Dim, row, col), Dim - 1)
        IN  /\ ret.tag = "Val"
            /\ minor = [tag |-> "Val", val |-> subdet]
            /\ subdet = math
            /\ call.op = "minor" => ret.val = subdet
            /\ call.op = "cofactor" => ret.val = sign * minor.val

\* cofactor(1, 0) of the 3x3 matrix of the cofactor test returned -25, the
\* negation of its minor 25.
C10_Witness ==
    /\ kind = "Matrix3" /\ call.op = "cofactor"
    /\ data = <<3, 5, 0, 2, -1, -7, 6, -1, 5>>
    /\ call.row = 1 /\ call.col = 0
    /\ ret = Val(-25)
    /\ Matrix3_minor(data, 1, 0) = Val(25)

---------------------------------------------------------------------------
(* Matrices: submatrix *)

\* The row-major indices (0-based) of the elements of an n x n matrix that lie
\* neither in row row nor in column col.
KeptIndices(n, row, col) ==
    {i \in 0 .. n * n - 1 : i \div n /= row /\ i % n /= col}

\* The elements of S in increasing order.
RECURSIVE Ascending(_)
Ascending(S) ==
    IF S = {} THEN <<>>
    ELSE LET least == CHOOSE i \in S : \A j \in S : i <= j
         IN  <<least>> \o Ascending(S \ {least})

SubmatrixAsKept ==
    (IsMatrix /\ call.op = "submatrix" /\ ~IndexOutOfRange) =>
        LET kept == Ascending(KeptIndices(Dim, call.row, call.col))
        IN  /\ ret.tag = "Val"
            /\ Len(ret.val) = (Dim - 1) * (Dim - 1)
            /\ Len(kept) = Len(ret.val)
            /\ \A k \in 1 .. Len(kept) : ret.val[k] = data[kept[k] + 1]

\* A step that is a call of submatrix leaves the matrix as it was.
SubmatrixReadsOnly == call'.op = "submatrix" => data' = data /\ denom' = denom

\* C11: for Matrix3 and Matrix4 and every row, col < N: submatrix(row, col) is
\* the (N-1)x(N-1) matrix made of exactly the elements whose row index differs
\* from row and whose column index differs from col, kept in their original
\* row-major order, and the source matrix is not modified.
C11_Submatrix == []SubmatrixAsKept /\ [][SubmatrixReadsOnly]_vars

\* submatrix(2, 1) of the 4x4 matrix of the submatrix test returned the 3x3
\* matrix the test expects.
C11_Witness ==
    /\ kind = "Matrix4" /\ call.op = "submatrix"
    /\ data = <<-6, 1, 1, 6, -8, 5, 8, 6, -1, 0, 8, 2, -7, 1, -1, 1>>
    /\ call.row = 2 /\ call.col = 1
    /\ ret = Val(<<-6, 1, 6, -8, 8, 6, -7, -1, 1>>)

---------------------------------------------------------------------------
(* Fractions: the f64 scalars that need not be integers *)

Abs(n) == IF n < 0 THEN -n ELSE n
Sgn(n) == IF n < 0 THEN -1 ELSE IF n > 0 THEN 1 ELSE 0

RECURSIVE GCD(_, _)
GCD(a, b) == IF b = 0 THEN a ELSE GCD(b, a % b)

RECURSIVE Pow(_, _)
Pow(b, e) == IF e = 0 THEN 1 ELSE b * Pow(b, e - 1)

Frac(n, d) == [num |-> n, den |-> d]

\* a / b > c / d for a, c >= 0 and b, d > 0, by comparing the integer parts and
\* then the reciprocals of the fractional parts (no product is formed).
RECURSIVE PosGt(_, _, _, _)
PosGt(a, b, c, d) ==
    IF a \div b /= c \div d THEN a \div b > c \div d
    ELSE IF a % b = 0 THEN FALSE
    ELSE IF c % d = 0 THEN TRUE
    ELSE PosGt(d, c % d, b, a % b)

\* f64::abs, and > and < between non-negative values.
FracAbs(f) == Frac(Abs(f.num), f.den)
FracGt(f, g) == PosGt(f.num, f.den, g.num, g.den)
FracLt(f, g) == PosGt(g.num, g.den, f.num, f.den)

\* f - g
FracSub(f, g) ==
    LET k == GCD(f.den, g.den)
    IN  Frac(f.num * (g.den \div k) - g.num * (f.den \div k), (f.den \div k) * g.den)

\* crate::EPSILON
EPSILON == Frac(1, 100000)

\* A matrix, tuple or colour value: numerators over a common denominator.
Over(d, q) == [data |-> d, den |-> q]
\* Element i (from 1) of such a value.
Elem(a, i) == Frac(a.data[i], a.den)

---------------------------------------------------------------------------
(* Matrix arithmetic.  a and b are matrices [data, den]. *)

(* Matrix2 *)

Matrix2_mult_mat(a, b) ==
    Over([k \in 1 .. 4 |->
            LET i == k - 1
                row == i \div 2
                col == i % 2
            IN  Matrix2_get(a.data, row, 0).val * Matrix2_get(b.data, 0, col).val
                    + Matrix2_get(a.data, row, 1).val * Matrix2_get(b.data, 1, col).val],
         a.den * b.den)

\* matrix_a.data[i] / scal, for scal /= 0.
Matrix2_div_scal(a, scal) ==
    LET k == GCD(scal.den, a.den)
    IN  Over([i \in 1 .. 4 |-> a.data[i] * (scal.den \div k) * Sgn(scal.num)],
             (a.den \div k) * Abs(scal.num))

Matrix2_transpose(a) ==
    LET d == a.data
    IN  Over(<<d[1], d[3], d[2], d[4]>>, a.den)

\* self.det() as an f64.
Matrix2_det_f64(a) == Frac(Matrix2_det(a.data), Pow(a.den, 2))

Matrix2_invertible(a) == FracGt(FracAbs(Matrix2_det_f64(a)), EPSILON)

\* Matrix2::inverse with the adjugate transposed (b and c exchanged).
Matrix2_inverse_swapped(a) ==
    IF Matrix2_invertible(a) = FALSE THEN None
    ELSE LET det == Matrix2_det_f64(a)
             d == a.data
             adjoint == Over(<<d[4], -d[3], -d[2], d[1]>>, a.den)
         IN  Some(Matrix2_div_scal(adjoint, det))

Matrix2_inverse(a) ==
    IF Matrix2_invertible(a) = FALSE THEN None
    ELSE LET det == Matrix2_det_f64(a)
             d == a.data
             adjoint == Over(<<d[4], -d[2], -d[3], d[1]>>, a.den)
         IN  Some(Matrix2_div_scal(adjoint, det))

Matrix2_eq(a, b) ==
    \A i \in 1 .. 4 : ~FracGt(FracAbs(FracSub(Elem(a, i), Elem(b, i))), EPSILON)

(* Matrix3 *)

Matrix3_mult_mat(a, b) ==
    Over([k \in 1 .. 9 |->
            LET i == k - 1
                row == i \div 3
                col == i % 3
            IN  Matrix3_get(a.data, row, 0).val * Matrix3_get(b.data, 0, col).val
                    + Matrix3_get(a.data, row, 1).val * Matrix3_get(b.data, 1, col).val
                    + Matrix3_get(a.data, row, 2).val * Matrix3_get(b.data, 2, col).val],
         a.den * b.den)

Matrix3_div_scal(a, scal) ==
    LET k == GCD(scal.den, a.den)
    IN  Over([i \in 1 .. 9 |-> a.data[i] * (scal.den \div k) * Sgn(scal.num)],
             (a.den \div k) * Abs(scal.num))

\* transposed[i * 3 + j] = data[j * 3 + i]
Matrix3_transpose(a) ==
    Over([k \in 1 .. 9 |->
            LET i == (k - 1) \div 3
                j == (k - 1) % 3
            IN  a.data[j * 3 + i + 1]],
         a.den)

Matrix3_det_f64(a) == Frac(Matrix3_det(a.data), Pow(a.den, 3))

Matrix3_invertible(a) == FracGt(FracAbs(Matrix3_det_f64(a)), EPSILON)

Matrix3_inverse(a) ==
    IF Matrix3_invertible(a) = FALSE THEN None
    ELSE LET adjoint ==
                 Over([k \in 1 .. 9 |->
                         LET i == k - 1
                             row == i \div 3
                             col == i % 3
                         IN  Matrix3_cofactor(a.data, col, row).val],
                      Pow(a.den, 2))
         IN  Some(Matrix3_div_scal(adjoint, Matrix3_det_f64(a)))

Matrix3_eq(a, b) ==
    \A i \in 1 .. 9 : ~FracGt(FracAbs(FracSub(Elem(a, i), Elem(b, i))), EPSILON)

(* Matrix4 *)

\* Matrix4::mult_mat with the operands exchanged.
Matrix4_mult_mat_reversed(a, b) ==
    Over([k \in 1 .. 16 |->
            LET i == k - 1
                row == i \div 4
                col == i % 4
            IN  Matrix4_get(b.data, row, 0).val * Matrix4_get(a.data, 0, col).val
                    + Matrix4_get(b.data, row, 1).val * Matrix4_get(a.data, 1, col).val
                    + Matrix4_get(b.data, row, 2).val * Matrix4_get(a.data, 2, col).val
                    + Matrix4_get(b.data, row, 3).val * Matrix4_get(a.data, 3, col).val],
         a.den * b.den)

Matrix4_mult_mat(a, b) ==
    Over([k \in 1 .. 16 |->
            LET i == k - 1
                row == i \div 4
                col == i % 4
            IN  Matrix4_get(a.data, row, 0).val * Matrix4_get(b.data, 0, col).val
                    + Matrix4_get(a.data, row, 1).val * Matrix4_get(b.data, 1, col).val
                    + Matrix4_get(a.data, row, 2).val * Matrix4_get(b.data, 2, col).val
                    + Matrix4_get(a.data, row, 3).val * Matrix4_get(b.data, 3, col).val],
         a.den * b.den)

Matrix4_div_scal(a, scal) ==
    LET k == GCD(scal.den, a.den)
    IN  Over([i \in 1 .. 16 |-> a.data[i] * (scal.den \div k) * Sgn(scal.num)],
             (a.den \div k) * Abs(scal.num))

\* Matrix4::transpose leaving every element where it is.
Matrix4_transpose_inplace(a) == Over([k \in 1 .. 16 |-> a.data[k]], a.den)

\* transposed[col * 4 + row] = data[row * 4 + col]
Matrix4_transpose(a) ==
    Over([k \in 1 .. 16 |->
            LET col == (k - 1) \div 4
                row == (k - 1) % 4
            IN  a.data[row * 4 + col + 1]],
         a.den)

Matrix4_det_f64(a) == Frac(Matrix4_det(a.data), Pow(a.den, 4))

\* Matrix4::invertible with >= for >.
Matrix4_invertible_ge(a) == ~FracLt(FracAbs(Matrix4_det_f64(a)), EPSILON)

Matrix4_invertible(a) == FracGt(FracAbs(Matrix4_det_f64(a)), EPSILON)

\* Matrix4::inverse without the transposition of the cofactors.
Matrix4_inverse_untransposed(a) ==
    IF Matrix4_invertible(a) = FALSE THEN None
    ELSE LET adjoint ==
                 Over([k \in 1 .. 16 |->
                         LET i == k - 1
                             row == i \div 4
                             col == i % 4
                         IN  Matrix4_cofactor(a.data, row, col).val],
                      Pow(a.den, 3))
         IN  Some(Matrix4_div_scal(adjoint, Matrix4_det_f64(a)))

Matrix4_inverse(a) ==
    IF Matrix4_invertible(a) = FALSE THEN None
    ELSE LET adjoint ==
                 Over([k \in 1 .. 16 |->
                         LET i == k - 1
                             row == i \div 4
                             col == i % 4
                         IN  Matrix4_cofactor(a.data, col, row).val],
                      Pow(a.den, 3))
         IN  Some(Matrix4_div_scal(adjoint, Matrix4_det_f64(a)))

Matrix4_eq(a, b) ==
    \A i \in 1 .. 16 : ~FracGt(FracAbs(FracSub(Elem(a, i), Elem(b, i))), EPSILON)

(* Tuple and Color.  A tuple is [data |-> <<x, y, z, w>>, den]; a colour is    *)
(* [data |-> [red, green, blue], den].                                         *)

Tuple_eq(a, b) ==
    /\ FracLt(FracAbs(FracSub(Elem(a, 1), Elem(b, 1))), EPSILON)
    /\ FracLt(FracAbs(FracSub(Elem(a, 2), Elem(b, 2))), EPSILON)
    /\ FracLt(FracAbs(FracSub(Elem(a, 3), Elem(b, 3))), EPSILON)
    /\ FracLt(FracAbs(FracSub(Elem(a, 4), Elem(b, 4))), EPSILON)

Color_eq(a, b) ==
    /\ FracLt(FracAbs(FracSub(Frac(a.data.red, a.den), Frac(b.data.red, b.den))), EPSILON)
    /\ FracLt(FracAbs(FracSub(Frac(a.data.green, a.den), Frac(b.data.green, b.den))), EPSILON)
    /\ FracLt(FracAbs(FracSub(Frac(a.data.blue, a.den), Frac(b.data.blue, b.den))), EPSILON)

---------------------------------------------------------------------------
(* Actions of matrix arithmetic *)

\* The object under test as a value.
Self == Over(data, denom)

\* let m = MatrixN::from_array(arr), Tuple::new(..), Color::new(..)
NewValue(k, a) ==
    /\ kind = k
    /\ data = a.data
    /\ denom = a.den
    /\ width = 0 /\ height = 0 /\ pixels = <<>>
    /\ call = [op |-> "new"]
    /\ ret = Unit
    /\ nwrites = 0
    /\ shadow = <<>>
    /\ frame = NoFrame

\* m.invertible()
Invertible ==
    /\ IsMatrix
    /\ ret' = IF kind = "Matrix2" THEN Val(Matrix2_invertible(Self))
              ELSE IF kind = "Matrix3" THEN Val(Matrix3_invertible(Self))
              ELSE Val(Matrix4_invertible(Self))
    /\ call' = [op |-> "invertible"]
    /\ UNCHANGED <<kind, denom, frame, width, height, pixels, data, nwrites, shadow>>

\* m.inverse()
Inverse ==
    /\ IsMatrix
    /\ ret' = IF kind = "Matrix2" THEN Matrix2_inverse(Self)
              ELSE IF kind = "Matrix3" THEN Matrix3_inverse(Self)
              ELSE Matrix4_inverse(Self)
    /\ call' = [op |-> "inverse"]
    /\ UNCHANGED <<kind, denom, frame, width, height, pixels, data, nwrites, shadow>>

\* &m * &rhs
Mul(rhs) ==
    /\ IsMatrix
    /\ ret' = IF kind = "Matrix2" THEN Val(Matrix2_mult_mat(Self, rhs))
              ELSE IF kind = "Matrix3" THEN Val(Matrix3_mult_mat(Self, rhs))
              ELSE Val(Matrix4_mult_mat(Self, rhs))
    /\ call' = [op |-> "mul", rhs |-> rhs]
    /\ UNCHANGED <<kind, denom, frame, width, height, pixels, data, nwrites, shadow>>

\* m.transpose()
Transpose ==
    /\ IsMatrix
    /\ ret' = IF kind = "Matrix2" THEN Val(Matrix2_transpose(Self))
              ELSE IF kind = "Matrix3" THEN Val(Matrix3_transpose(Self))
              ELSE Val(Matrix4_transpose(Self))
    /\ call' = [op |-> "transpose"]
    /\ UNCHANGED <<kind, denom, frame, width, height, pixels, data, nwrites, shadow>>

\* m == rhs
Eq(rhs) ==
    /\ ret' = IF kind = "Matrix2" THEN Val(Matrix2_eq(Self, rhs))
              ELSE IF kind = "Matrix3" THEN Val(Matrix3_eq(Self, rhs))
              ELSE IF kind = "Matrix4" THEN Val(Matrix4_eq(Self, rhs))
              ELSE IF kind = "Tuple" THEN Val(Tuple_eq(Self, rhs))
              ELSE Val(Color_eq(Self, rhs))
    /\ call' = [op |-> "eq", rhs |-> rhs]
    /\ UNCHANGED <<kind, denom, frame, width, height, pixels, data, nwrites, shadow>>

(* Inversion and products: the matrices of the tests, singular matrices, and   *)
(* diagonal matrices whose determinant is just below, exactly at and just      *)
(* above EPSILON (0.002 * 0.005, 0.01 * 0.02 * 0.05 and                        *)
(* 0.01 * 0.02 * 0.04 * 1.25 are exactly 1e-5 in f64).  One call is made on    *)
(* each matrix; the calls take &self or consume self and change nothing.       *)

\* The last diagonal element but one of the near-singular matrices runs over
\* 1 .. MaxDiag (over 100 or 1000).
MaxDiag == 6

Invertible6445 == <<6, 4, 4, 4, 5, 5, 7, 6, 4, -9, 3, -7, 9, 1, 7, -6>>
ZeroRow4 == <<-4, 2, -2, -3, 9, 6, 2, 6, 0, -5, 1, -5, 0, 0, 0, 0>>

InverseSeeds(k) ==
    IF k = "Matrix2"
    THEN {Over(Matrix2_zero, 1), Over(Matrix2_identity, 1), Over(<<1, 5, -3, 2>>, 1),
          Over(<<1, 2, 2, 4>>, 1), Over(<<1, 2, 0, 0>>, 1), Over(<<0, 2, 5, 0>>, 1000)}
         \cup {Over(<<2, 0, 0, j>>, 1000) : j \in 3 .. MaxDiag}
    ELSE IF k = "Matrix3"
    THEN {Over(Matrix3_zero, 1), Over(Matrix3_identity, 1),
          Over(<<3, 5, 0, 2, -1, -7, 6, -1, 5>>, 1), Over(<<1, 2, 6, -5, 8, -4, 2, 6, 4>>, 1),
          Over(<<1, 2, 3, 0, 0, 0, 4, 5, 6>>, 1), Over(<<1, 2, 3, 2, 4, 6, 1, 0, 1>>, 1)}
         \cup {Over(<<1, 0, 0, 0, 2, 0, 0, 0, j>>, 100) : j \in 3 .. MaxDiag}
    ELSE {Over(Matrix4_zero, 1), Over(Matrix4_identity, 1), Over(Det532, 1), Over(Det4071, 1),
          Over(Invertible6445, 1), Over(ZeroRow4, 1)}
         \cup {Over(<<1, 0, 0, 0, 0, 2, 0, 0, 0, 0, j - 1, 0, 0, 0, 0, 125>>, 100) :
                  j \in 3 .. MaxDiag}

InitInverse ==
    \E k \in {"Matrix2", "Matrix3", "Matrix4"} : \E a \in InverseSeeds(k) : NewValue(k, a)

NextInverse ==
    \/ call.op = "new" /\ Invertible
    \/ call.op = "new" /\ Inverse
    \/ call.op = "new" /\ Transpose
    \/ \E rhs \in InverseSeeds(kind) : call.op = "new" /\ Mul(rhs)

SpecInverse == InitInverse /\ [][NextInverse]_vars

---------------------------------------------------------------------------
(* Matrices: invertibility *)

\* The determinant of the matrix under test is LeibnizDet(data, Dim) / denom^Dim.
\* |det| > EPSILON, = EPSILON, /= 0 (EPSILON = 1 / 100000).
DetAboveEpsilon == Abs(LeibnizDet(data, Dim)) * 100000 > Pow(denom, Dim)
DetIsEpsilon == Abs(LeibnizDet(data, Dim)) * 100000 = Pow(denom, Dim)
DetNonZero == LeibnizDet(data, Dim) /= 0

\* Some row of the matrix under test is all zeros.
HasZeroRow == \E r \in 0 .. Dim - 1 : \A c \in 0 .. Dim - 1 : data[r * Dim + c + 1] = 0

\* C12: for MatrixN, N in {2, 3, 4}: invertible() is true if and only if
\* |det()| > epsilon (1e-5), and inverse() returns None (an absence, not an
\* error value and not a panic) if and only if invertible() is false; a matrix
\* with a zero row, and a matrix with |det| exactly equal to epsilon, both give
\* None.
C12_Invertible ==
    /\ (IsMatrix /\ call.op = "invertible") =>
          ret = [tag |-> "Val", val |-> DetAboveEpsilon]
    /\ (IsMatrix /\ call.op = "inverse") =>
          /\ ret.tag \in {"None", "Some"}
          /\ ret = [tag |-> "None"] <=> ~DetAboveEpsilon
          /\ HasZeroRow => ret = [tag |-> "None"]
          /\ DetIsEpsilon => ret = [tag |-> "None"]

\* inverse() of a 4x4 matrix whose determinant is exactly epsilon, and not zero,
\* returned None.
C12_Witness ==
    /\ kind = "Matrix4" /\ call.op = "inverse"
    /\ DetIsEpsilon /\ ~HasZeroRow
    /\ ret = [tag |-> "None"]

---------------------------------------------------------------------------
(* Matrices: the elements of the inverse *)

\* cofactor(row, col) of the matrix under test, in units of 1 / denom^(Dim-1);
\* for Matrix2 [[a, b], [c, d]], which has no cofactor method, the element
\* (row, col) of the cofactor matrix [[d, -c], [-b, a]].
PublicCofactor(row, col) ==
    IF kind = "Matrix4" THEN Matrix4_cofactor(data, row, col).val
    ELSE IF kind = "Matrix3" THEN Matrix3_cofactor(data, row, col).val
    ELSE <<data[4], -data[3], -data[2], data[1]>>[row * 2 + col + 1]

\* C13: when a Matrix3 or Matrix4 M is invertible, element (row, col) of
\* M.inverse() equals M.cofactor(col, row) / M.det() for every row, col < N,
\* using the same cofactor values the public cofactor(row, col) returns; for
\* Matrix2 [[a,b],[c,d]] the inverse is [[d,-b],[-c,a]] / det.
\* (x / ret.den = (cof / denom^(N-1)) / (det / denom^N) is stated as
\* x * det = cof * denom * ret.den.)
C13_InverseElements ==
    (IsMatrix /\ call.op = "inverse" /\ ret.tag = "Some") =>
        /\ Len(ret.val.data) = Dim * Dim
        /\ ret.val.den > 0
        /\ \A row \in 0 .. Dim - 1, col \in 0 .. Dim - 1 :
              ret.val.data[row * Dim + col + 1] * LeibnizDet(data, Dim)
                  = PublicCofactor(col, row) * denom * ret.val.den

\* The worked example: inverse[3][2] = cofactor(2,3) / det = -160 / 532 and
\* inverse[2][3] = cofactor(3,2) / det = 105 / 532.
C13_Witness ==
    /\ kind = "Matrix4" /\ call.op = "inverse" /\ data = Det532 /\ denom = 1
    /\ ret.tag = "Some"
    /\ Matrix4_cofactor(data, 2, 3) = Val(-160)
    /\ Matrix4_cofactor(data, 3, 2) = Val(105)
    /\ Elem(ret.val, 3 * 4 + 2 + 1) = Frac(-160, 532)
    /\ Elem(ret.val, 2 * 4 + 3 + 1) = Frac(105, 532)

---------------------------------------------------------------------------
(* Matrices: the product with the inverse *)

IdentityOf(n) == Over([k \in 1 .. n * n |-> IF (k - 1) \div n = (k - 1) % n THEN 1 ELSE 0], 1)

\* Element (r, c) of the row-by-column product of the n x n matrices a and b,
\* as a numerator over a.den * b.den.
RECURSIVE DotFrom(_, _, _, _, _, _)
DotFrom(a, b, n, r, c, j) ==
    IF j >= n THEN 0
    ELSE a.data[r * n + j + 1] * b.data[j * n + c + 1] + DotFrom(a, b, n, r, c, j + 1)

\* m * inv is the identity within EPSILON: no element is further than EPSILON
\* from the element of the identity.
ProductIsIdentity(m, inv, n) ==
    \A r \in 0 .. n - 1, c \in 0 .. n - 1 :
        LET p == Frac(DotFrom(m, inv, n, r, c, 0), m.den * inv.den)
            e == Frac(IF r = c THEN 1 ELSE 0, 1)
        IN  ~FracGt(FracAbs(FracSub(p, e)), EPSILON)

\* C14 as stated: for all non-singular (determinant not zero) MatrixN M, N in
\* {2, 3, 4}: M.inverse() yields a matrix and M * M.inverse() equals the identity
\* matrix of size N within epsilon.
C14_AsStated ==
    (IsMatrix /\ call.op = "inverse" /\ DetNonZero) =>
        /\ ret.tag = "Some"
        /\ ProductIsIdentity(Self, ret.val, Dim)

\* C14 as amended: for all MatrixN M with |det| > epsilon, N in {2, 3, 4}:
\* M.inverse() yields a matrix and M * M.inverse() equals the identity matrix of
\* size N within epsilon (in exact arithmetic); for |det| <= epsilon, zero or
\* not, inverse() yields no matrix.
C14_InverseProduct ==
    (IsMatrix /\ call.op = "inverse") =>
        /\ DetAboveEpsilon =>
              /\ ret.tag = "Some"
              /\ ProductIsIdentity(Self, ret.val, Dim)
              /\ (IF kind = "Matrix2" THEN Matrix2_eq(Matrix2_mult_mat(Self, ret.val), IdentityOf(2))
                  ELSE IF kind = "Matrix3"
                  THEN Matrix3_eq(Matrix3_mult_mat(Self, ret.val), IdentityOf(3))
                  ELSE Matrix4_eq(Matrix4_mult_mat(Self, ret.val), IdentityOf(4)))
        /\ ~DetAboveEpsilon => ret = [tag |-> "None"]

\* The inverse of a 2x2 matrix that is not symmetric was taken, and its elements
\* are not integers.
C14_Witness ==
    /\ kind = "Matrix2" /\ call.op = "inverse" /\ ret.tag = "Some"
    /\ data[2] /= data[3]
    /\ ret.val.den > 1

---------------------------------------------------------------------------
(* Matrices: product and transposition *)

\* t is a with the row and column index of every element exchanged.
IsTransposeOf(t, a, n) ==
    /\ t.den = a.den
    /\ Len(t.data) = n * n
    /\ \A r \in 0 .. n - 1, c \in 0 .. n - 1 : t.data[c * n + r + 1] = a.data[r * n + c + 1]

\* p is the row-by-column product a * b.
IsProductOf(p, a, b, n) ==
    /\ p.den = a.den * b.den
    /\ Len(p.data) = n * n
    /\ \A r \in 0 .. n - 1, c \in 0 .. n - 1 :
          p.data[r * n + c + 1] = DotFrom(a, b, n, r, c, 0)

TransposeOf(a) ==
    IF kind = "Matrix2" THEN Matrix2_transpose(a)
    ELSE IF kind = "Matrix3" THEN Matrix3_transpose(a)
    ELSE Matrix4_transpose(a)

ProductOf(a, b) ==
    IF kind = "Matrix2" THEN Matrix2_mult_mat(a, b)
    ELSE IF kind = "Matrix3" THEN Matrix3_mult_mat(a, b)
    ELSE Matrix4_mult_mat(a, b)

\* C15: for all MatrixN M and N' of the same size (2, 3 or 4):
\* (M * N').transpose() equals N'.transpose() * M.transpose(), where * is the
\* row-by-column matrix product and transpose swaps the row and column index of
\* every element; transposing twice gives back the original matrix.
C15_TransposeOfProduct ==
    /\ (IsMatrix /\ call.op = "mul") =>
          /\ ret.tag = "Val"
          /\ IsProductOf(ret.val, Self, call.rhs, Dim)
          /\ TransposeOf(ret.val) = ProductOf(TransposeOf(call.rhs), TransposeOf(Self))
    /\ (IsMatrix /\ call.op = "transpose") =>
          /\ ret.tag = "Val"
          /\ IsTransposeOf(ret.val, Self, Dim)
          /\ TransposeOf(ret.val) = Self

\* Two 4x4 matrices that do not commute were multiplied, and the product is not
\* symmetric.
C15_Witness ==
    /\ kind = "Matrix4" /\ call.op = "mul"
    /\ ret.val /= Matrix4_mult_mat(call.rhs, Self)
    /\ ret.val /= Matrix4_transpose(ret.val)

---------------------------------------------------------------------------
(* Equality.  Values whose components are 0 except one, which is 0 or a power *)
(* of two times EPSILON / 2: 0.000005, 0.00001, 0.00002, ...  The differences *)
(* of such components are exact in f64 where they are EPSILON or less.        *)

\* The components are numerators over EqDen: one unit is EPSILON / 2.
EqDen == 2 * EPSILON.den
\* The largest non-zero component is 2^MaxExp units.
MaxExp == 2

EqOffsets == {0} \cup {Pow(2, e) : e \in 0 .. MaxExp}

\* The value of n components that is zero but for component p, which is j.
OneOff(n, p, j) == [i \in 1 .. n |-> IF i = p THEN j ELSE 0]

EqSeeds(k) ==
    IF k = "Matrix2" THEN {Over(OneOff(4, p, j), EqDen) : p \in {1, 4}, j \in EqOffsets}
    ELSE IF k = "Matrix3" THEN {Over(OneOff(9, p, j), EqDen) : p \in {1, 9}, j \in EqOffsets}
    ELSE IF k = "Matrix4" THEN {Over(OneOff(16, p, j), EqDen) : p \in {1, 16}, j \in EqOffsets}
    ELSE IF k = "Tuple" THEN {Over(OneOff(4, p, j), EqDen) : p \in {1, 4}, j \in EqOffsets}
    ELSE {Over([red |-> j, green |-> 0, blue |-> 0], EqDen) : j \in EqOffsets}
         \cup {Over([red |-> 0, green |-> 0, blue |-> j], EqDen) : j \in EqOffsets}

InitEq ==
    \E k \in {"Matrix2", "Matrix3", "Matrix4", "Tuple", "Color"} :
        \E a \in EqSeeds(k) : NewValue(k, a)

NextEq == \E rhs \in EqSeeds(kind) : call.op = "new" /\ Eq(rhs)

SpecEq == InitEq /\ [][NextEq]_vars

\* The components of a value, as a sequence.
Components(a) ==
    IF kind = "Color" THEN <<a.data.red, a.data.green, a.data.blue>> ELSE a.data

\* C16: equality of Tuple, Color and MatrixN (N in {2, 3, 4}) uses one rule: two
\* instances are equal if and only if every pair of corresponding components
\* differs in absolute value by strictly less than epsilon (1e-5); in particular
\* two matrices with an element differing by exactly epsilon are not equal, just
\* as two tuples or colours with a component differing by exactly epsilon are
\* not equal.
\* (Both values are over EqDen: |x - y| / EqDen < 1 / 100000.)
C16_OneRule ==
    (call.op = "eq" /\ call.rhs.den = EqDen /\ denom = EqDen) =>
        LET x == Components(Self)
            y == Components(call.rhs)
        IN  ret = [tag |-> "Val",
                   val |-> \A i \in 1 .. Len(x) : Abs(x[i] - y[i]) * 100000 < EqDen]

---------------------------------------------------------------------------
(* Tuples and transformations (src/src/tuple.rs, src/src/transform.rs) *)

\* Tuple::new forcing w to 0 or 1.
Tuple_new_normalised(x, y, z, w) == <<x, y, z, IF w = 0 THEN 0 ELSE 1>>

\* Tuple::new: the four values as given.
Tuple_new(x, y, z, w) == <<x, y, z, w>>
Tuple_new_point(x, y, z) == Tuple_new(x, y, z, 1)
Tuple_new_vector(x, y, z) == Tuple_new(x, y, z, 0)

\* Matrix4::from_tuples_by_row, for four rows over the same denominator.
Matrix4_from_tuples_by_row(t1, t2, t3, t4) ==
    Over(t1.data \o t2.data \o t3.data \o t4.data, t1.den)

\* Matrix4::mult_vec with the matrix read by columns.
Matrix4_mult_vec_by_col(a, v) ==
    LET matrix == a.data
        vec == v.data
    IN  Over(Tuple_new(
                 matrix[1] * vec[1] + matrix[5] * vec[2] + matrix[9] * vec[3] + matrix[13] * vec[4],
                 matrix[2] * vec[1] + matrix[6] * vec[2] + matrix[10] * vec[3] + matrix[14] * vec[4],
                 matrix[3] * vec[1] + matrix[7] * vec[2] + matrix[11] * vec[3] + matrix[15] * vec[4],
                 matrix[4] * vec[1] + matrix[8] * vec[2] + matrix[12] * vec[3] + matrix[16] * vec[4]),
             a.den * v.den)

Matrix4_mult_vec(a, v) ==
    LET matrix == a.data
        vec == v.data
    IN  Over(Tuple_new(
                 matrix[1] * vec[1] + matrix[2] * vec[2] + matrix[3] * vec[3] + matrix[4] * vec[4],
                 matrix[5] * vec[1] + matrix[6] * vec[2] + matrix[7] * vec[3] + matrix[8] * vec[4],
                 matrix[9] * vec[1] + matrix[10] * vec[2] + matrix[11] * vec[3] + matrix[12] * vec[4],
                 matrix[13] * vec[1] + matrix[14] * vec[2] + matrix[15] * vec[3] + matrix[16] * vec[4]),
             a.den * v.den)

\* translation(x, y, z), for integers x, y, z.
translation(x, y, z) ==
    LET m0 == Matrix4_identity
        m1 == Matrix4_set(m0, 0, 3, x).data
        m2 == Matrix4_set(m1, 1, 3, y).data
        m3 == Matrix4_set(m2, 2, 3, z).data
    IN  Over(m3, 1)

(* An angle is held as its cosine and sine, numerators over one denominator:   *)
(* rad.cos() is rad.cos / rad.den and rad.sin() is rad.sin / rad.den.  1.0 is  *)
(* rad.den over rad.den.                                                       *)

rotation_x(rad) ==
    LET q == rad.den
    IN  Matrix4_from_tuples_by_row(
            Over(Tuple_new(q, 0, 0, 0), q),
            Over(Tuple_new(0, rad.cos, -rad.sin, 0), q),
            Over(Tuple_new(0, rad.sin, rad.cos, 0), q),
            Over(Tuple_new(0, 0, 0, q), q))

rotation_y(rad) ==
    LET q == rad.den
    IN  Matrix4_from_tuples_by_row(
            Over(Tuple_new(rad.cos, 0, rad.sin, 0), q),
            Over(Tuple_new(0, q, 0, 0), q),
            Over(Tuple_new(-rad.sin, 0, rad.cos, 0), q),
            Over(Tuple_new(0, 0, 0, q), q))

rotation_z(rad) ==
    LET q == rad.den
    IN  Matrix4_from_tuples_by_row(
            Over(Tuple_new(rad.cos, -rad.sin, 0, 0), q),
            Over(Tuple_new(rad.sin, rad.cos, 0, 0), q),
            Over(Tuple_new(0, 0, 0, 0), q),
            Over(Tuple_new(0, 0, 0, q), q))

---------------------------------------------------------------------------
(* Actions on a transformation matrix *)

\* let transform = transform::translation(x, y, z)  (rotation_x(rad), ...)
NewTransform(a, c) ==
    /\ kind = "Matrix4"
    /\ data = a.data
    /\ denom = a.den
    /\ width = 0 /\ height = 0 /\ pixels = <<>>
    /\ call = c
    /\ ret = Unit
    /\ nwrites = 0
    /\ shadow = <<>>
    /\ frame = NoFrame

\* &transform * &t
MulVec(t) ==
    /\ kind = "Matrix4"
    /\ ret' = Val(Matrix4_mult_vec(Self, t))
    /\ call' = [op |-> "mul_vec", rhs |-> t]
    /\ UNCHANGED <<kind, denom, frame, width, height, pixels, data, nwrites, shadow>>

(* A translation by the offsets of the tests, or a rotation about one axis by  *)
(* a multiple of a quarter turn or by an angle with rational cosine and sine,  *)
(* then one call: a product with a point or a vector, det, invertible or       *)
(* inverse.                                                                    *)

\* The offsets of a translation.
Offsets == {-3, 0, 2, 5}
\* 0, pi/2, pi, -pi/2, atan(4/3), atan(3/4), -atan(4/3).
Angles ==
    { [cos |-> 1, sin |-> 0, den |-> 1], [cos |-> 0, sin |-> 1, den |-> 1],
      [cos |-> -1, sin |-> 0, den |-> 1], [cos |-> 0, sin |-> -1, den |-> 1],
      [cos |-> 3, sin |-> 4, den |-> 5], [cos |-> 4, sin |-> 3, den |-> 5],
      [cos |-> 3, sin |-> -4, den |-> 5] }
\* The points and vectors multiplied.
Operands ==
    { Over(Tuple_new_point(-3, 4, 5), 1), Over(Tuple_new_vector(-3, 4, 5), 1),
      Over(Tuple_new_point(0, 1, 0), 1), Over(Tuple_new_point(0, 0, 1), 1),
      Over(Tuple_new_vector(1, 0, 0), 1), Over(Tuple_new_point(2, 3, 4), 1) }

InitTransform ==
    \/ \E x \in Offsets, y \in Offsets, z \in Offsets :
          NewTransform(translation(x, y, z), [op |-> "translation", x |-> x, y |-> y, z |-> z])
    \/ \E rad \in Angles : NewTransform(rotation_x(rad), [op |-> "rotation_x", rad |-> rad])
    \/ \E rad \in Angles : NewTransform(rotation_y(rad), [op |-> "rotation_y", rad |-> rad])
    \/ \E rad \in Angles : NewTransform(rotation_z(rad), [op |-> "rotation_z", rad |-> rad])

Built == call.op \in {"translation", "rotation_x", "rotation_y", "rotation_z"}

NextTransform ==
    \/ \E t \in Operands : Built /\ MulVec(t)
    \/ call.op = "translation" /\ Det
    \/ Built /\ Invertible
    \/ Built /\ Inverse

SpecTransform == InitTransform /\ [][NextTransform]_vars

---------------------------------------------------------------------------
(* Transformations: translation *)

\* a and b hold the same values: a.data[i] / a.den = b.data[i] / b.den.
SameValue(a, b) ==
    /\ Len(a.data) = Len(b.data)
    /\ \A i \in 1 .. Len(a.data) : a.data[i] * b.den = b.data[i] * a.den

TranslationLayout ==
    call.op = "translation" =>
        /\ denom = 1
        /\ Len(data) = 16
        /\ \A r \in 0 .. 3, c \in 0 .. 3 :
              data[r * 4 + c + 1] =
                  IF r = 0 /\ c = 3 THEN call.x
                  ELSE IF r = 1 /\ c = 3 THEN call.y
                  ELSE IF r = 2 /\ c = 3 THEN call.z
                  ELSE IF r = c THEN 1 ELSE 0

TranslationMoves ==
    \A x \in Offsets, y \in Offsets, z \in Offsets :
        (kind = "Matrix4" /\ call.op = "mul_vec" /\ Self = translation(x, y, z)) =>
            LET t == call.rhs.data
            IN  /\ ret.tag = "Val"
                /\ t[4] = 1 => ret.val = Over(<<t[1] + x, t[2] + y, t[3] + z, 1>>, call.rhs.den)
                /\ t[4] = 0 => ret.val = call.rhs

\* C17: translation(x, y, z) is the 4x4 identity with elements (0,3), (1,3),
\* (2,3) set to x, y, z and nothing else changed; multiplied with a point
\* (px, py, pz, 1) it gives (px+x, py+y, pz+z, 1), and multiplied with any vector
\* (w = 0) it gives the vector unchanged.
C17_Translation == TranslationLayout /\ TranslationMoves

\* translation(5, -3, 2) * point(-3, 4, 5) returned point(2, 1, 7), as in the
\* test.
C17_Witness ==
    /\ kind = "Matrix4" /\ call.op = "mul_vec"
    /\ Self = translation(5, -3, 2)
    /\ call.rhs = Over(<<-3, 4, 5, 1>>, 1)
    /\ ret = Val(Over(<<2, 1, 7, 1>>, 1))

\* C18: for all a, b, c: translation(a, b, c) is invertible (its determinant is
\* 1), its inverse equals translation(-a, -b, -c), and
\* translation(a, b, c) * translation(a, b, c).inverse() equals the identity.
C18_TranslationInverse ==
    \A a \in Offsets, b \in Offsets, c \in Offsets :
        (kind = "Matrix4" /\ Self = translation(a, b, c)) =>
            /\ call.op = "det" => ret = [tag |-> "Val", val |-> 1]
            /\ call.op = "invertible" => ret = [tag |-> "Val", val |-> TRUE]
            /\ call.op = "inverse" =>
                  /\ ret.tag = "Some"
                  /\ SameValue(ret.val, translation(-a, -b, -c))
                  /\ Matrix4_eq(ret.val, translation(-a, -b, -c))
                  /\ SameValue(Matrix4_mult_mat(Self, ret.val), IdentityOf(4))
                  /\ Matrix4_eq(Matrix4_mult_mat(Self, ret.val), IdentityOf(4))

\* The inverse of translation(5, -3, 2) was taken; it moves point(-3, 4, 5) to
\* point(-8, 7, 3), as in the test.
C18_Witness ==
    /\ kind = "Matrix4" /\ call.op = "inverse"
    /\ Self = translation(5, -3, 2)
    /\ ret.tag = "Some"
    /\ SameValue(Matrix4_mult_vec(ret.val, Over(<<-3, 4, 5, 1>>, 1)), Over(<<-8, 7, 3, 1>>, 1))

---------------------------------------------------------------------------
(* Transformations: rotation *)

\* The index (0, 1, 2) of the axis of the rotation the call built.
AxisOf(op) == IF op = "rotation_x" THEN 0 ELSE IF op = "rotation_y" THEN 1 ELSE 2

\* Row k and column k of the matrix under test are those of the identity.
FrameAt(k) ==
    \A i \in 0 .. 3 :
        /\ data[k * 4 + i + 1] = (IF i = k THEN denom ELSE 0)
        /\ data[i * 4 + k + 1] = (IF i = k THEN denom ELSE 0)

\* The matrix rotation_x, rotation_y or rotation_z (k = 0, 1, 2) builds for rad.
RotationAbout(k, rad) ==
    IF k = 0 THEN rotation_x(rad) ELSE IF k = 1 THEN rotation_y(rad) ELSE rotation_z(rad)

\* C19: for every angle r, each of rotation_x(r), rotation_y(r), rotation_z(r)
\* is a 3x3 rotation block embedded in a 4x4 identity frame: row 3 and column 3
\* equal those of the identity, and the row and column of the rotation axis equal
\* those of the identity (element (0,0) = 1 for x, (1,1) = 1 for y, (2,2) = 1 for
\* z), so the coordinate along the axis and w are preserved and rotation by angle
\* 0 is the identity matrix.
C19_RotationFrame ==
    /\ call.op \in {"rotation_x", "rotation_y", "rotation_z"} =>
          /\ Len(data) = 16
          /\ FrameAt(3)
          /\ FrameAt(AxisOf(call.op))
          /\ (call.rad.sin = 0 /\ call.rad.cos = call.rad.den) =>
                SameValue(Self, IdentityOf(4))
    /\ \A k \in 0 .. 2, rad \in Angles :
          (kind = "Matrix4" /\ call.op = "mul_vec" /\ Self = RotationAbout(k, rad)) =>
              /\ SameValue(Over(<<ret.val.data[k + 1]>>, ret.val.den),
                           Over(<<call.rhs.data[k + 1]>>, call.rhs.den))
              /\ SameValue(Over(<<ret.val.data[4]>>, ret.val.den),
                           Over(<<call.rhs.data[4]>>, call.rhs.den))

\* C20: the rotation sign pattern is the conventional one: with c = cos r and
\* s = sin r, rotation_x(r) maps (x, y, z) to (x, c*y - s*z, s*y + c*z),
\* rotation_y(r) maps it to (c*x + s*z, y, -s*x + c*z), and rotation_z(r) maps it
\* to (c*x - s*y, s*x + c*y, z); so a quarter turn sends (0,1,0) to (0,0,1) about
\* x, (0,0,1) to (1,0,0) about y, and (0,1,0) to (-1,0,0) about z.
\* (The coordinates of the image are numerators over rad.den * the operand's
\* denominator.)
C20_RotationSigns ==
    \A k \in 0 .. 2, rad \in Angles :
        (kind = "Matrix4" /\ call.op = "mul_vec" /\ Self = RotationAbout(k, rad)) =>
            LET x == call.rhs.data[1]
                y == call.rhs.data[2]
                z == call.rhs.data[3]
                c == rad.cos
                s == rad.sin
                q == rad.den
                image == <<ret.val.data[1], ret.val.data[2], ret.val.data[3]>>
            IN  /\ ret.val.den = q * call.rhs.den
                /\ k = 0 => image = <<q * x, c * y - s * z, s * y + c * z>>
                /\ k = 1 => image = <<c * x + s * z, q * y, -s * x + c * z>>
                /\ k = 2 => image = <<c * x - s * y, s * x + c * y, q * z>>

---------------------------------------------------------------------------
(* Transformations: scaling and shear (src/src/transform.rs) *)

\* scaling(x, y, z), for integers x, y, z.
scaling(x, y, z) ==
    LET m0 == Matrix4_identity
        m1 == Matrix4_set(m0, 0, 0, x).data
        m2 == Matrix4_set(m1, 1, 1, y).data
        m3 == Matrix4_set(m2, 2, 2, z).data
    IN  Over(m3, 1)

\* shear with every factor written at the transposed position.
shear_transposed(x_y, x_z, y_x, y_z, z_x, z_y) ==
    Matrix4_from_tuples_by_row(
        Over(Tuple_new(1, y_x, z_x, 0), 1),
        Over(Tuple_new(x_y, 1, z_y, 0), 1),
        Over(Tuple_new(x_z, y_z, 1, 0), 1),
        Over(Tuple_new(0, 0, 0, 1), 1))

\* shear(x_y, x_z, y_x, y_z, z_x, z_y), for integer factors.
shear(x_y, x_z, y_x, y_z, z_x, z_y) ==
    Matrix4_from_tuples_by_row(
        Over(Tuple_new(1, x_y, x_z, 0), 1),
        Over(Tuple_new(y_x, 1, y_z, 0), 1),
        Over(Tuple_new(z_x, z_y, 1, 0), 1),
        Over(Tuple_new(0, 0, 0, 1), 1))

(* A shear by factors out of Factors, then its product with a point or a       *)
(* vector.                                                                     *)

\* The factors of a shear.
Factors == {-1, 0, 2}

InitShear ==
    \E xy \in Factors, xz \in Factors, yx \in Factors, yz \in Factors, zx \in Factors, zy \in Factors :
        NewTransform(shear(xy, xz, yx, yz, zx, zy),
                     [op |-> "shear", xy |-> xy, xz |-> xz, yx |-> yx, yz |-> yz, zx |-> zx, zy |-> zy])

NextShear == \E t \in Operands : call.op = "shear" /\ MulVec(t)

SpecShear == InitShear /\ [][NextShear]_vars

ShearLayout ==
    call.op = "shear" =>
        /\ denom = 1
        /\ Len(data) = 16
        /\ \A r \in 0 .. 3, c \in 0 .. 3 :
              data[r * 4 + c + 1] =
                  IF r = 0 /\ c = 1 THEN call.xy
                  ELSE IF r = 0 /\ c = 2 THEN call.xz
                  ELSE IF r = 1 /\ c = 0 THEN call.yx
                  ELSE IF r = 1 /\ c = 2 THEN call.yz
                  ELSE IF r = 2 /\ c = 0 THEN call.zx
                  ELSE IF r = 2 /\ c = 1 THEN call.zy
                  ELSE IF r = c THEN 1 ELSE 0

\* The step shear * t, for a point t.
ShearMoves ==
    (call.op = "shear" /\ call'.op = "mul_vec" /\ call'.rhs.data[4] = call'.rhs.den) =>
        LET x == call'.rhs.data[1]
            y == call'.rhs.data[2]
            z == call'.rhs.data[3]
        IN  ret' = Val(Over(<<x + call.xy * y + call.xz * z,
                              y + call.yx * x + call.yz * z,
                              z + call.zx * x + call.zy * y,
                              1>>, call'.rhs.den))

\* C21: shear(xy, xz, yx, yz, zx, zy) is the identity with elements (0,1) = xy,
\* (0,2) = xz, (1,0) = yx, (1,2) = yz, (2,0) = zx, (2,1) = zy and nothing else
\* changed, so it maps a point (x, y, z, 1) to
\* (x + xy*y + xz*z, y + yx*x + yz*z, z + zx*x + zy*y, 1).
C21_Shear == []ShearLayout /\ [][ShearMoves]_vars

\* shear(0, 2, 0, 0, 0, 0) * point(2, 3, 4) returned point(10, 3, 4): x moved in
\* proportion to z.
C21_Witness ==
    /\ kind = "Matrix4" /\ call.op = "mul_vec"
    /\ Self = shear(0, 2, 0, 0, 0, 0)
    /\ call.rhs = Over(<<2, 3, 4, 1>>, 1)
    /\ ret = Val(Over(<<10, 3, 4, 1>>, 1))

---------------------------------------------------------------------------
(* Transformations: composition *)

\* let point_p = Tuple::new_point(..): the tuple the transformations are applied to.
NewOperand(p) ==
    /\ kind = "Tuple"
    /\ data = p.data
    /\ denom = p.den
    /\ width = 0 /\ height = 0 /\ pixels = <<>>
    /\ call = [op |-> "operand", p |-> p, ms |-> <<>>]
    /\ ret = Unit
    /\ nwrites = 0
    /\ shadow = <<>>
    /\ frame = NoFrame

\* let point_p = matrix * point_p
Apply(matrix) ==
    /\ kind = "Tuple"
    /\ LET point_p == Matrix4_mult_vec(matrix, Self)
       IN  /\ data' = point_p.data
           /\ denom' = point_p.den
    /\ call' = [op |-> "apply", p |-> call.p, ms |-> Append(call.ms, matrix)]
    /\ ret' = Unit
    /\ UNCHANGED <<kind, frame, width, height, pixels, nwrites, shadow>>

\* let matrix = matrix_t * matrix_s * matrix_r; matrix * point_p
\* for the three matrices applied so far (matrix_r first) and the tuple they
\* were applied to; reversed: matrix_r * matrix_s * matrix_t.
Compose(reversed) ==
    /\ kind = "Tuple"
    /\ Len(call.ms) = 3
    /\ LET matrix_r == call.ms[1]
           matrix_s == call.ms[2]
           matrix_t == call.ms[3]
           matrix == IF reversed
                     THEN Matrix4_mult_mat(Matrix4_mult_mat(matrix_r, matrix_s), matrix_t)
                     ELSE Matrix4_mult_mat(Matrix4_mult_mat(matrix_t, matrix_s), matrix_r)
       IN  ret' = Val(Matrix4_mult_vec(matrix, call.p))
    /\ call' = [op |-> "compose", p |-> call.p, ms |-> call.ms, reversed |-> reversed]
    /\ UNCHANGED <<kind, denom, frame, width, height, pixels, data, nwrites, shadow>>

(* A point or a vector, three transformations applied to it one after another, *)
(* then the product of the three applied to the original tuple.                *)

\* The length of a chain of transformations.
ChainLen == 3

QuarterTurn == [cos |-> 0, sin |-> 1, den |-> 1]

Transforms ==
    { rotation_x(QuarterTurn), scaling(5, 5, 5), translation(10, 5, 7),
      rotation_y([cos |-> 3, sin |-> 4, den |-> 5]), shear(0, 2, 0, 0, -1, 0),
      scaling(2, -3, 4) }

ChainOperands ==
    { Over(Tuple_new_point(1, 0, 1), 1), Over(Tuple_new_point(2, 3, 4), 1),
      Over(Tuple_new_vector(-3, 4, 5), 1) }

InitChain == \E p \in ChainOperands : NewOperand(p)

NextChain ==
    \/ \E matrix \in Transforms :
          call.op \in {"operand", "apply"} /\ Len(call.ms) < ChainLen /\ Apply(matrix)
    \/ \E reversed \in BOOLEAN : call.op = "apply" /\ Compose(reversed)

SpecChain == InitChain /\ [][NextChain]_vars

\* The chain of the test: rotation_x(pi/2), scaling(5, 5, 5), translation(10, 5, 7)
\* applied to point(1, 0, 1).
ChainOfTest ==
    /\ call.p = Over(Tuple_new_point(1, 0, 1), 1)
    /\ call.ms = <<rotation_x(QuarterTurn), scaling(5, 5, 5), translation(10, 5, 7)>>

\* C22: transforms compose by matrix multiplication with the rightmost factor
\* acting first: for all Matrix4 A, B, C and every tuple P, ((A * B) * C) * P
\* equals A * (B * (C * P)); with R = rotation_x(pi/2), S = scaling(5,5,5),
\* T = translation(10,5,7) and P = point(1,0,1), applying R, then S, then T one
\* after another and applying the single product T*S*R both give point(15,0,7),
\* while the reversed product R*S*T gives a different point.
C22_Composition ==
    /\ (kind = "Tuple" /\ call.op = "compose" /\ ~call.reversed) =>
          /\ ret.tag = "Val"
          /\ SameValue(ret.val, Self)
          /\ Tuple_eq(ret.val, Self)
    /\ (kind = "Tuple" /\ call.op \in {"apply", "compose"} /\ ChainOfTest) =>
          SameValue(Self, Over(Tuple_new_point(15, 0, 7), 1))
    /\ (kind = "Tuple" /\ call.op = "compose" /\ ChainOfTest) =>
          IF call.reversed
          THEN ~Tuple_eq(ret.val, Over(Tuple_new_point(15, 0, 7), 1))
          ELSE Tuple_eq(ret.val, Over(Tuple_new_point(15, 0, 7), 1))

\* The product T*S*R of the test was applied to point(1, 0, 1) and gave
\* point(15, 0, 7), the point the three steps had given.
C22_Witness ==
    /\ kind = "Tuple" /\ call.op = "compose" /\ ~call.reversed
    /\ ChainOfTest
    /\ ret = Val(Over(Tuple_new_point(15, 0, 7), 1))
    /\ Self = Over(Tuple_new_point(15, 0, 7), 1)

---------------------------------------------------------------------------
(* Tuple arithmetic (src/src/tuple.rs) *)

\* Tuple::is_point, Tuple::is_vector: w == 1.0, w == 0.0
Tuple_is_point(t) == t.data[4] = t.den

\* is_vector accepting every tuple that is not a point.
Tuple_is_vector_not_point(t) == ~(t.data[4] = t.den)

Tuple_is_vector(t) == t.data[4] = 0

\* impl ops::Neg for Tuple
Tuple_neg(t) == Over(<<-t.data[1], -t.data[2], -t.data[3], -t.data[4]>>, t.den)

\* Tuple::add, over the least common denominator of the operands.
Tuple_add(t1, t2) ==
    LET k == GCD(t1.den, t2.den)
        m1 == t2.den \div k
        m2 == t1.den \div k
    IN  Over(<<t1.data[1] * m1 + t2.data[1] * m2,
               t1.data[2] * m1 + t2.data[2] * m2,
               t1.data[3] * m1 + t2.data[3] * m2,
               t1.data[4] * m1 + t2.data[4] * m2>>, m2 * t2.den)

\* Tuple::sub keeping the w of t1.
Tuple_sub_w_kept(t1, t2) ==
    LET k == GCD(t1.den, t2.den)
        m1 == t2.den \div k
        m2 == t1.den \div k
    IN  Over(<<t1.data[1] * m1 - t2.data[1] * m2,
               t1.data[2] * m1 - t2.data[2] * m2,
               t1.data[3] * m1 - t2.data[3] * m2,
               t1.data[4] * m1>>, m2 * t2.den)

\* Tuple::sub
Tuple_sub(t1, t2) ==
    LET k == GCD(t1.den, t2.den)
        m1 == t2.den \div k
        m2 == t1.den \div k
    IN  Over(<<t1.data[1] * m1 - t2.data[1] * m2,
               t1.data[2] * m1 - t2.data[2] * m2,
               t1.data[3] * m1 - t2.data[3] * m2,
               t1.data[4] * m1 - t2.data[4] * m2>>, m2 * t2.den)

\* Tuple::cross with a sum in the z component.
Tuple_cross_sum(vector_a, vector_b) ==
    IF ~Tuple_is_vector(vector_a) \/ ~Tuple_is_vector(vector_b) THEN Panic
    ELSE LET a == vector_a.data
             b == vector_b.data
         IN  Val(Over(Tuple_new_vector(a[2] * b[3] - a[3] * b[2],
                                       a[3] * b[1] - a[1] * b[3],
                                       a[1] * b[2] + a[2] * b[1]),
                      vector_a.den * vector_b.den))

\* Tuple::cross: the two assertions, then the cross product of x, y, z.
Tuple_cross(vector_a, vector_b) ==
    IF ~Tuple_is_vector(vector_a) \/ ~Tuple_is_vector(vector_b) THEN Panic
    ELSE LET a == vector_a.data
             b == vector_b.data
         IN  Val(Over(Tuple_new_vector(a[2] * b[3] - a[3] * b[2],
                                       a[3] * b[1] - a[1] * b[3],
                                       a[1] * b[2] - a[2] * b[1]),
                      vector_a.den * vector_b.den))

---------------------------------------------------------------------------
(* Actions on a Tuple *)

\* The arguments x, y, z, w of Tuple::new are chosen (numerators over a.den);
\* no tuple exists yet.
ChooseTuple(a) ==
    /\ kind = "Tuple"
    /\ data = NoMatrix
    /\ denom = 1
    /\ width = 0 /\ height = 0 /\ pixels = <<>>
    /\ call = [op |-> "args", a |-> a, n |-> 0]
    /\ ret = Unit
    /\ nwrites = 0
    /\ shadow = <<>>
    /\ frame = NoFrame

\* let t = Tuple::new(x, y, z, w)
New ==
    /\ kind = "Tuple"
    /\ call.op = "args"
    /\ data' = Tuple_new(call.a.data[1], call.a.data[2], call.a.data[3], call.a.data[4])
    /\ denom' = call.a.den
    /\ call' = [op |-> "new", a |-> call.a, n |-> 0]
    /\ ret' = Val(Over(data', denom'))
    /\ UNCHANGED <<kind, frame, width, height, pixels, nwrites, shadow>>

\* The call made as the n-th on lhs, after the call prev.
CallOn(op, lhs, rhs, prev) ==
    [op |-> op, lhs |-> lhs, rhs |-> rhs, prev |-> prev, n |-> prev.n + 1]

\* let t = t + rhs
Add(rhs) ==
    /\ kind = "Tuple"
    /\ LET t == Tuple_add(Self, rhs)
       IN  data' = t.data /\ denom' = t.den /\ ret' = Val(t)
    /\ call' = CallOn("add", Self, rhs, call)
    /\ UNCHANGED <<kind, frame, width, height, pixels, nwrites, shadow>>

\* let t = t - rhs
Sub(rhs) ==
    /\ kind = "Tuple"
    /\ LET t == Tuple_sub(Self, rhs)
       IN  data' = t.data /\ denom' = t.den /\ ret' = Val(t)
    /\ call' = CallOn("sub", Self, rhs, call)
    /\ UNCHANGED <<kind, frame, width, height, pixels, nwrites, shadow>>

\* let t = -t
Neg ==
    /\ kind = "Tuple"
    /\ LET t == Tuple_neg(Self)
       IN  data' = t.data /\ denom' = t.den /\ ret' = Val(t)
    /\ call' = CallOn("neg", Self, Self, call)
    /\ UNCHANGED <<kind, frame, width, height, pixels, nwrites, shadow>>

\* let t = Tuple::cross(&t, &rhs): a panic leaves no result.
Cross(rhs) ==
    /\ kind = "Tuple"
    /\ LET t == Tuple_cross(Self, rhs)
       IN  /\ ret' = t
           /\ data' = IF t = Panic THEN data ELSE t.val.data
           /\ denom' = IF t = Panic THEN denom ELSE t.val.den
    /\ call' = CallOn("cross", Self, rhs, call)
    /\ UNCHANGED <<kind, frame, width, height, pixels, nwrites, shadow>>

(* A tuple built by Tuple::new from the arguments of the tests (points,       *)
(* vectors, and tuples whose w is neither 0 nor 1), then at most MaxOps        *)
(* operations on it, each with a tuple of the same set; nothing follows a      *)
(* panic.                                                                      *)

\* The number of operations made on a tuple.
MaxOps == 2

TupleSeeds ==
    { Over(<<3, 2, 1, 1>>, 1), Over(<<3, -2, 5, 1>>, 1),
      Over(<<1, 2, 3, 0>>, 1), Over(<<2, 3, 4, 0>>, 1), Over(<<5, 6, 7, 0>>, 1),
      Over(<<1, -2, 3, -4>>, 1), Over(<<4, 8, 12, 1>>, 4) }

InitTuple == \E a \in TupleSeeds : ChooseTuple(a)

Live == call.op # "args" /\ ret # Panic /\ call.n < MaxOps

NextTuple ==
    \/ New
    \/ \E rhs \in TupleSeeds : Live /\ Add(rhs)
    \/ \E rhs \in TupleSeeds : Live /\ Sub(rhs)
    \/ Live /\ Neg
    \/ \E rhs \in TupleSeeds : Live /\ Cross(rhs)

SpecTuple == InitTuple /\ [][NextTuple]_vars

\* C23: for all points P and vectors V, W: P + V - V equals P (and is a point,
\* w = 1), V + W equals W + V, and cross(V, W) equals the negation of
\* cross(W, V) and is itself a vector (w = 0).
C23_TupleAlgebra ==
    kind = "Tuple" =>
        /\ (/\ call.op = "sub" /\ call.prev.op = "add" /\ call.prev.rhs = call.rhs
            /\ Tuple_is_point(call.prev.lhs) /\ Tuple_is_vector(call.rhs)) =>
              /\ SameValue(Self, call.prev.lhs)
              /\ Tuple_eq(Self, call.prev.lhs)
              /\ Tuple_is_point(Self)
        /\ (call.op = "add" /\ Tuple_is_vector(call.lhs) /\ Tuple_is_vector(call.rhs)) =>
              /\ SameValue(ret.val, Tuple_add(call.rhs, call.lhs))
              /\ Tuple_eq(ret.val, Tuple_add(call.rhs, call.lhs))
        /\ (call.op = "cross" /\ Tuple_is_vector(call.lhs) /\ Tuple_is_vector(call.rhs)) =>
              /\ ret.tag = "Val"
              /\ Tuple_cross(call.rhs, call.lhs).tag = "Val"
              /\ SameValue(ret.val, Tuple_neg(Tuple_cross(call.rhs, call.lhs).val))
              /\ Tuple_eq(ret.val, Tuple_neg(Tuple_cross(call.rhs, call.lhs).val))
              /\ Tuple_is_vector(ret.val)

\* point(3, 2, 1) + vector(5, 6, 7) - vector(5, 6, 7) was computed and is
\* point(3, 2, 1) again; the sum in between was point(8, 8, 8).
C23_Witness ==
    /\ kind = "Tuple" /\ call.op = "sub" /\ call.prev.op = "add"
    /\ call.prev.lhs = Over(<<3, 2, 1, 1>>, 1)
    /\ call.prev.rhs = Over(<<5, 6, 7, 0>>, 1)
    /\ call.lhs = Over(<<8, 8, 8, 1>>, 1)
    /\ call.rhs = Over(<<5, 6, 7, 0>>, 1)
    /\ ret = Val(Over(<<3, 2, 1, 1>>, 1))

---------------------------------------------------------------------------
(* Tuples: preconditions *)

\* The w of a tuple is exactly 0.
WIsZero(t) == t.data[4] = 0

\* C24: Tuple::cross(a, b) fails with a panic (no result returned) if and only
\* if a or b is not a vector, i.e. its w is not exactly 0.0; when both are
\* vectors it returns the 3-component cross product of their x, y, z with
\* w = 0.
C24_CrossPrecondition ==
    (kind = "Tuple" /\ call.op = "cross") =>
        LET a == call.lhs.data
            b == call.rhs.data
        IN  /\ ret = Panic <=> (~WIsZero(call.lhs) \/ ~WIsZero(call.rhs))
            /\ ret = Panic => Self = call.lhs
            /\ (WIsZero(call.lhs) /\ WIsZero(call.rhs)) =>
                  ret = Val(Over(<<a[2] * b[3] - a[3] * b[2],
                                   a[3] * b[1] - a[1] * b[3],
                                   a[1] * b[2] - a[2] * b[1],
                                   0>>, call.lhs.den * call.rhs.den))

\* cross of the vector (1, 2, 3) with the tuple (1, 2, 3, 0.25) panicked.
C24_Witness ==
    /\ kind = "Tuple" /\ call.op = "cross"
    /\ call.lhs = Over(<<1, 2, 3, 0>>, 1)
    /\ call.rhs = Over(<<4, 8, 12, 1>>, 4)
    /\ ret = Panic

\* The components of a differ from those of b by those of c, sign times:
\* a = b + sign * c.
DiffersBy(a, b, sign, c) ==
    \A i \in 1 .. 4 :
        a.data[i] * b.den * c.den = (b.data[i] * c.den + sign * c.data[i] * b.den) * a.den

\* C25: tuple addition and subtraction never fail and never validate w: for
\* all tuples the result is component-wise including w (w = w1 + w2 or
\* w1 - w2), so point + point yields w = 2 and vector - point yields w = -1
\* instead of a panic or an error.
C25_AddSubPermissive ==
    (kind = "Tuple" /\ call.op \in {"add", "sub"}) =>
        /\ ret.tag = "Val"
        /\ ret.val = Self
        /\ DiffersBy(ret.val, call.lhs, IF call.op = "add" THEN 1 ELSE -1, call.rhs)
        /\ (call.op = "add" /\ Tuple_is_point(call.lhs) /\ Tuple_is_point(call.rhs)) =>
              ret.val.data[4] = 2 * ret.val.den
        /\ (call.op = "sub" /\ WIsZero(call.lhs) /\ Tuple_is_point(call.rhs)) =>
              ret.val.data[4] = -ret.val.den

\* vector(1, 2, 3) - point(3, 2, 1) returned the tuple (-2, 0, 2, -1).
C25_Witness ==
    /\ kind = "Tuple" /\ call.op = "sub"
    /\ call.lhs = Over(<<1, 2, 3, 0>>, 1)
    /\ call.rhs = Over(<<3, 2, 1, 1>>, 1)
    /\ ret = Val(Over(<<-2, 0, 2, -1>>, 1))

\* The w given to Tuple::new is neither 0 nor 1.
OddW == call.a.data[4] # 0 /\ call.a.data[4] # call.a.den

\* C26 as stated: Tuple::new(x, y, z, w) panics if w is neither 0 nor 1.
C26_AsStated ==
    (kind = "Tuple" /\ call.op = "new" /\ OddW) => ret = Panic

\* C26, amended: Tuple::new(x, y, z, w) never panics: it returns the tuple
\* holding x, y, z, w as given for every w, also when w is neither 0 nor 1;
\* such a tuple is neither a point nor a vector.
C26_NewStores ==
    (kind = "Tuple" /\ call.op = "new") =>
        /\ ret = Val(call.a)
        /\ Self = call.a
        /\ OddW => ~Tuple_is_point(Self) /\ ~Tuple_is_vector(Self)

\* Tuple::new(1, -2, 3, -4) returned the tuple (1, -2, 3, -4), as in the test
\* negation.
C26_Witness ==
    /\ kind = "Tuple" /\ call.op = "new"
    /\ call.a = Over(<<1, -2, 3, -4>>, 1)
    /\ ret = Val(Over(<<1, -2, 3, -4>>, 1))

---------------------------------------------------------------------------
(* wrap_string, step by step (src/src/draw/canvas.rs) *)

(* frame holds the locals of the running call: line_start, line_end and       *)
(* result, and pc, the place the call has reached: "while" (the head of the    *)
(* outer loop), "scan" (the head of the inner loop), "after" (the test after   *)
(* the inner loop), "return".  The strings are ASCII: every index is a         *)
(* character boundary.                                                         *)

\* wrap_string(&str, max_len) is called.
CallWrapString(str, max_len) ==
    /\ kind = "String"
    /\ data = NoMatrix
    /\ denom = 1
    /\ width = 0 /\ height = 0 /\ pixels = <<>>
    /\ call = [op |-> "wrap_string", str |-> str, max_len |-> max_len]
    /\ ret = Unit
    /\ nwrites = 0
    /\ shadow = <<>>
    /\ frame = [pc |-> "while", line_start |-> 0, line_end |-> 0, result |-> <<>>]

\* while line_start <= str.len() { let mut line_end = line_start + max_len;
\*     if line_end >= str.len() { result.push_str(..); break; }
WrapWhile ==
    /\ frame.pc = "while"
    /\ LET str == call.str
           line_start == frame.line_start
           line_end == line_start + call.max_len
       IN  frame' = IF ~(line_start <= Len(str))
                    THEN [frame EXCEPT !.pc = "return"]
                    ELSE IF line_end >= Len(str)
                    THEN [frame EXCEPT !.pc = "return", !.line_end = line_end,
                                       !.result = @ \o Slice(str, line_start, Len(str))]
                    ELSE [frame EXCEPT !.pc = "scan", !.line_end = line_end]
    /\ UNCHANGED <<kind, denom, width, height, pixels, data, call, ret, nwrites, shadow>>

\* while !str.is_char_boundary(line_end) || str.get(line_end..line_end + 1) != Some(" ") {
\*     line_end -= 1; if line_end == line_start { break; } }
WrapScan ==
    /\ frame.pc = "scan"
    /\ frame' = IF CharAt(call.str, frame.line_end) # " "
                THEN LET line_end == frame.line_end - 1
                     IN  [frame EXCEPT !.line_end = line_end,
                                       !.pc = IF line_end = frame.line_start THEN "after" ELSE "scan"]
                ELSE [frame EXCEPT !.pc = "after"]
    /\ UNCHANGED <<kind, denom, width, height, pixels, data, call, ret, nwrites, shadow>>

\* WrapAfter leaving line_start where it is.
WrapAfter_stuck ==
    /\ frame.pc = "after"
    /\ frame' = IF frame.line_end = frame.line_start
                THEN [frame EXCEPT !.pc = "return"]
                ELSE [frame EXCEPT !.pc = "while",
                                   !.result = @ \o Slice(call.str, frame.line_start, frame.line_end)
                                                \o <<"\n">>,
                                   !.line_start = frame.line_start]
    /\ UNCHANGED <<kind, denom, width, height, pixels, data, call, ret, nwrites, shadow>>

\* if line_end == line_start { break; }
\* result.push_str(..); result.push('\n'); line_start = line_end + 1; }
WrapAfter ==
    /\ frame.pc = "after"
    /\ frame' = IF frame.line_end = frame.line_start
                THEN [frame EXCEPT !.pc = "return"]
                ELSE [frame EXCEPT !.pc = "while",
                                   !.result = @ \o Slice(call.str, frame.line_start, frame.line_end)
                                                \o <<"\n">>,
                                   !.line_start = frame.line_end + 1]
    /\ UNCHANGED <<kind, denom, width, height, pixels, data, call, ret, nwrites, shadow>>

\* result
WrapReturn ==
    /\ frame.pc = "return"
    /\ ret' = Val(frame.result)
    /\ frame' = NoFrame
    /\ UNCHANGED <<kind, denom, width, height, pixels, data, call, nwrites, shadow>>

(* Every string of at most MaxStrLen characters out of a letter and a space,   *)
(* wrapped at 1 .. MaxWrap characters.                                         *)

MaxStrLen == 6
MaxWrap == 3

WrapAlphabet == {"a", " "}

WrapStrings == UNION {[1 .. n -> WrapAlphabet] : n \in 0 .. MaxStrLen}

InitWrap == \E str \in WrapStrings, max_len \in 1 .. MaxWrap : CallWrapString(str, max_len)

NextWrap ==
    \/ WrapWhile
    \/ WrapScan
    \/ WrapAfter
    \/ WrapReturn

SpecWrap == InitWrap /\ [][NextWrap]_vars

\* The call runs whenever it can: nothing else is scheduled.
SpecWrapFair == SpecWrap /\ WF_vars(NextWrap)

\* wrap_string has returned.
Returned == call.op = "wrap_string" /\ ret.tag = "Val"

\* From one test of the outer loop to the next, line_start has grown; it never
\* shrinks.
OuterProgress ==
    (frame.pc # "none" /\ frame'.pc # "none") =>
        /\ frame'.line_start >= frame.line_start
        /\ frame'.pc = "while" => frame'.line_start > frame.line_start

\* The backward scan stays above line_start and ends at line_start at the
\* latest.
ScanBounded ==
    /\ frame.pc = "scan" => frame.line_start < frame.line_end /\ frame.line_end < Len(call.str)
    /\ frame.pc = "after" => frame.line_start <= frame.line_end

\* C27: wrap_string(s, max_len) terminates for every input string and every
\* max_len >= 1: in each iteration of its outer loop line_start strictly
\* increases or the loop exits, and the inner backward scan for a space stops
\* at line_start at the latest, so to_ppm always returns.
C27_Terminates == <>Returned /\ []ScanBounded /\ [][OuterProgress]_vars

\* wrap_string has returned after at least one full turn of the outer loop and
\* a backward scan that ran down to line_start: the rest of the string is
\* missing from the result.
C27_Witness ==
    /\ Returned
    /\ \E i \in 1 .. Len(ret.val) : ret.val[i] = "\n"
    /\ Len(ret.val) < Len(call.str)

\* The string with every newline replaced by a single space.
Unwrapped(str) == [i \in 1 .. Len(str) |-> IF str[i] = "\n" THEN " " ELSE str[i]]

\* C28: wrap_string(s, max_len) loses no characters for any input: replacing
\* every newline of the result by a single space gives back s exactly, also
\* when s contains a run of more than max_len characters without a space or
\* when the character at the start of a line is the only space within reach.
C28_NoLoss == Returned => Unwrapped(ret.val) = call.str

---------------------------------------------------------------------------
(* Matrices: the write index of submatrix *)

\* The number of elements of the matrix under test that pass the filter of
\* submatrix(row, col): the number of writes its loop asks for.
WritesAskedFor(row, col) ==
    IF kind = "Matrix3" THEN Len(Matrix3_submatrix_loop(data, row, col, 0, <<>>))
    ELSE Len(Matrix4_submatrix_loop(data, row, col, 0, <<>>))

\* C29: submatrix(row, col) of Matrix3 and Matrix4 (and therefore minor and
\* cofactor) writes exactly (N-1)*(N-1) elements into its result buffer when
\* row < N and col < N, so its write index never leaves the buffer; when
\* row >= N or col >= N more than (N-1)*(N-1) elements pass the filter, the
\* write index runs past the buffer and the call aborts with a panic instead of
\* returning a recoverable out-of-bounds result like get and set do.
C29_SubmatrixWrites ==
    (kind \in {"Matrix3", "Matrix4"} /\ call.op \in {"submatrix", "minor", "cofactor"}) =>
        LET asked == WritesAskedFor(call.row, call.col)
            room == (Dim - 1) * (Dim - 1)
        IN  IF call.row < Dim /\ call.col < Dim
            THEN asked = room /\ ret.tag = "Val"
            ELSE asked > room /\ ret = Panic /\ ret.tag \notin {"None", "Err"}

\* minor(4, 1) of a Matrix4 panicked: twelve elements passed the filter, the
\* buffer holds nine.
C29_Witness ==
    /\ kind = "Matrix4" /\ call.op = "minor"
    /\ call.row = 4 /\ call.col = 1
    /\ WritesAskedFor(4, 1) = 12
    /\ ret = Panic

---------------------------------------------------------------------------
(* Transformations: inverse of a rotation *)

\* The angle -rad.
Negated(rad) == [cos |-> rad.cos, sin |-> -rad.sin, den |-> rad.den]

\* C30: for every angle r, each of rotation_x(r), rotation_y(r) and
\* rotation_z(r) has determinant cos^2 r + sin^2 r = 1, so invertible() is
\* true, inverse() returns a matrix (never None), and that inverse equals the
\* rotation about the same axis by -r.
C30_RotationInverse ==
    \A k \in 0 .. 2, rad \in Angles :
        (kind = "Matrix4" /\ Self = RotationAbout(k, rad)) =>
            /\ Matrix4_det_f64(Self).num = Matrix4_det_f64(Self).den
            /\ call.op = "invertible" => ret = Val(TRUE)
            /\ call.op = "inverse" =>
                  /\ ret.tag = "Some"
                  /\ SameValue(ret.val, RotationAbout(k, Negated(rad)))
                  /\ Matrix4_eq(ret.val, RotationAbout(k, Negated(rad)))

====
